---- MODULE Spec2Model ----
(***************************************************************************)
(* A model of bunql (github.com/fxnoob/bunql): the operator registry, the  *)
(* filter compiler, the sort and pagination stages and the BunQL           *)
(* orchestrator that drives them against a bun.SelectQuery.                *)
(*                                                                         *)
(* Go strings whose letter case or characters the code inspects are        *)
(* sequences of one-character strings; field names, which the code only    *)
(* compares for equality, are plain strings.                               *)
(***************************************************************************)
EXTENDS Integers, Sequences, FiniteSets, TLC

(***************************************************************************)
(* Bounds of the model.                                                    *)
(***************************************************************************)
\* most leaves in one filter tree
MaxLeaves == 3
\* deepest nesting of sub-groups below the root (root = depth 0)
MaxDepth == 2
\* most sub-groups of one group
MaxGroups == 2

(***************************************************************************)
(* strings.ToLower                                                         *)
(***************************************************************************)
LowerChars == <<"a","b","c","d","e","f","g","h","i","j","k","l","m",
                "n","o","p","q","r","s","t","u","v","w","x","y","z">>
UpperChars == <<"A","B","C","D","E","F","G","H","I","J","K","L","M",
                "N","O","P","Q","R","S","T","U","V","W","X","Y","Z">>

ToLowerChar(c) ==
    IF \E i \in DOMAIN UpperChars : UpperChars[i] = c
    THEN LowerChars[CHOOSE i \in DOMAIN UpperChars : UpperChars[i] = c]
    ELSE c

ToUpperChar(c) ==
    IF \E i \in DOMAIN LowerChars : LowerChars[i] = c
    THEN UpperChars[CHOOSE i \in DOMAIN LowerChars : LowerChars[i] = c]
    ELSE c

ToLower(s) == [i \in DOMAIN s |-> ToLowerChar(s[i])]

ToUpper(s) == [i \in DOMAIN s |-> ToUpperChar(s[i])]

\* every spelling of s that differs from it in letter case only
RECURSIVE CaseVariants(_)
CaseVariants(s) ==
    IF s = <<>> THEN {<<>>}
    ELSE {<<c>> \o t : c \in {ToLowerChar(Head(s)), ToUpperChar(Head(s))},
                       t \in CaseVariants(Tail(s))}

(***************************************************************************)
(* package operator                                                        *)
(***************************************************************************)
s_eq        == <<"e","q">>
s_neq       == <<"n","e","q">>
s_gt        == <<"g","t">>
s_gte       == <<"g","t","e">>
s_lt        == <<"l","t">>
s_lte       == <<"l","t","e">>
s_like      == <<"l","i","k","e">>
s_in        == <<"i","n">>
s_notin     == <<"n","o","t","i","n">>
s_isnull    == <<"i","s","n","u","l","l">>
s_isnotnull == <<"i","s","n","o","t","n","u","l","l">>
s_between   == <<"b","e","t","w","e","e","n">>

\* var operatorMap = map[string]string{...}
operatorMap ==
    (s_eq :> "=") @@ (s_neq :> "!=") @@ (s_gt :> ">") @@ (s_gte :> ">=") @@
    (s_lt :> "<") @@ (s_lte :> "<=") @@ (s_like :> "LIKE") @@ (s_in :> "IN") @@
    (s_notin :> "NOT IN") @@ (s_isnull :> "IS NULL") @@
    (s_isnotnull :> "IS NOT NULL")

ComparisonKinds == {"=", "!=", ">", ">=", "<", "<="}

GetOperator(op) ==
    LET l == ToLower(op)
    IN  IF l \in DOMAIN operatorMap THEN operatorMap[l] ELSE "="

\* IsValidOperator answering by what GetOperator resolves the name to
IsValidOperator_Resolves(op) == GetOperator(op) \in ComparisonKinds

IsValidOperator(op) == ToLower(op) \in DOMAIN operatorMap

(***************************************************************************)
(* package dto: Filter values (interface{} as decoded by encoding/json),   *)
(* Filter, FilterGroup, SortField, Pagination                              *)
(***************************************************************************)
Num(n)  == [t |-> "num",  n |-> n, s |-> <<>>, a |-> <<>>]
Str(s)  == [t |-> "str",  n |-> 0, s |-> s,    a |-> <<>>]
Arr(a)  == [t |-> "arr",  n |-> 0, s |-> <<>>, a |-> a]
Null    == [t |-> "null", n |-> 0, s |-> <<>>, a |-> <<>>]

\* values a Go caller builds that encoding/json never decodes to: an int, a
\* []string, and a value json.Marshal rejects (a func)
GoInt(n)     == [t |-> "int",      n |-> n, s |-> <<>>, a |-> <<>>]
GoStrings(a) == [t |-> "[]string", n |-> 0, s |-> <<>>, a |-> a]
GoFunc       == [t |-> "func",     n |-> 0, s |-> <<>>, a |-> <<>>]

Filter(f, op, v) == [Field |-> f, Operator |-> op, Value |-> v]

FilterGroup(l, fs, gs) == [Logic |-> l, Filters |-> fs, Groups |-> gs]

SortField(f, d) == [Field |-> f, Direction |-> d]

\* *dto.Pagination: nil, or a pointer to {Page, PageSize}
NilPagination == [nil |-> TRUE, Page |-> 0, PageSize |-> 0]
Pagination(page, size) == [nil |-> FALSE, Page |-> page, PageSize |-> size]

s_and  == <<"a","n","d">>
s_or   == <<"o","r">>
s_asc  == <<"a","s","c">>
s_desc == <<"d","e","s","c">>

(***************************************************************************)
(* fmt's %v and %d verbs                                                   *)
(***************************************************************************)
Digits == <<"0","1","2","3","4","5","6","7","8","9">>

IsDigit(c) == \E i \in DOMAIN Digits : Digits[i] = c

RECURSIVE NatToStr(_)
NatToStr(n) ==
    IF n < 10 THEN <<Digits[n + 1]>>
    ELSE NatToStr(n \div 10) \o <<Digits[(n % 10) + 1]>>

IntToStr(n) == IF n < 0 THEN <<"-">> \o NatToStr(0 - n) ELSE NatToStr(n)

RECURSIVE FmtV(_)
RECURSIVE FmtVList(_)
FmtVList(a) ==
    IF a = <<>> THEN <<>>
    ELSE IF Len(a) = 1 THEN FmtV(a[1])
    ELSE FmtV(a[1]) \o <<" ">> \o FmtVList(Tail(a))

FmtV(v) ==
    CASE v.t = "num"  -> IntToStr(v.n)
      [] v.t = "str"  -> v.s
      [] v.t = "arr"  -> <<"[">> \o FmtVList(v.a) \o <<"]">>
      [] v.t = "null" -> <<"<","n","i","l",">">>

(***************************************************************************)
(* filter.isDateString                                                     *)
(***************************************************************************)
D(lo, hi) == [k |-> "d", lo |-> lo, hi |-> hi, ch |-> ""]
Ch(c)     == [k |-> "c", lo |-> 1, hi |-> 1, ch |-> c]

RECURSIVE MatchString(_, _, _)
MatchString(pat, s, toEnd) ==
    IF pat = <<>> THEN (IF toEnd THEN s = <<>> ELSE TRUE)
    ELSE LET h == Head(pat)
         IN  IF h.k = "c"
             THEN /\ s # <<>>
                  /\ Head(s) = h.ch
                  /\ MatchString(Tail(pat), Tail(s), toEnd)
             ELSE \E n \in h.lo..h.hi :
                     /\ Len(s) >= n
                     /\ \A i \in 1..n : IsDigit(s[i])
                     /\ MatchString(Tail(pat), SubSeq(s, n + 1, Len(s)), toEnd)

datePatterns ==
    << [p |-> <<D(4,4), Ch("-"), D(2,2), Ch("-"), D(2,2)>>, toEnd |-> TRUE],
       [p |-> <<D(1,2), Ch("/"), D(1,2), Ch("/"), D(4,4)>>, toEnd |-> TRUE],
       [p |-> <<D(1,2), Ch("-"), D(1,2), Ch("-"), D(4,4)>>, toEnd |-> TRUE],
       [p |-> <<D(4,4), Ch("/"), D(1,2), Ch("/"), D(1,2)>>, toEnd |-> TRUE],
       [p |-> <<D(4,4), Ch("-"), D(2,2), Ch("-"), D(2,2), Ch("T"),
               D(2,2), Ch(":"), D(2,2), Ch(":"), D(2,2)>>, toEnd |-> FALSE] >>

isDateString(s) ==
    \E i \in DOMAIN datePatterns :
        MatchString(datePatterns[i].p, s, datePatterns[i].toEnd)

(***************************************************************************)
(* bun.SelectQuery.  A query is an object on the heap, named by a pointer: *)
(* every builder method changes the object it is called on and returns the *)
(* same pointer.  A QRef is a heap together with the pointer in hand.      *)
(*   where : the list of schema.QueryWithSep {Sep, Query}                  *)
(*   order : the ORDER BY expressions                                      *)
(*   limit, offset : set by Limit(n) / Offset(n)                           *)
(*   calls : the builder methods called on the object so far, in order     *)
(***************************************************************************)
NoQuery == [Kind |-> "", Cast |-> FALSE, Field |-> "", Args |-> <<>>]

Pred(kind, cast, field, args) ==
    [Kind |-> kind, Cast |-> cast, Field |-> field, Args |-> args]

sepAND   == <<" ","A","N","D"," ">>
sepOpen  == <<"(">>
sepClose == <<")">>

Unset == [set |-> FALSE, n |-> 0]

NewSelectQuery ==
    [where |-> <<>>, order |-> <<>>, limit |-> Unset, offset |-> Unset,
     calls |-> <<>>]

QRef(h, p) == [heap |-> h, ptr |-> p]

Deref(qr) == qr.heap[qr.ptr]

Called(qr, method) ==
    QRef([qr.heap EXCEPT ![qr.ptr].calls = Append(@, method)], qr.ptr)

addWhere(qr, w) ==
    QRef([qr.heap EXCEPT ![qr.ptr].where = Append(@, w)], qr.ptr)

\* (*SelectQuery).Where(query, args...)
Where(qr, pred) ==
    addWhere(Called(qr, "Where"), [Sep |-> sepAND, Query |-> pred])

addWhereGroup(qr, sep, where) ==
    IF Len(where) = 0 THEN qr
    ELSE LET w0 == [where EXCEPT ![1].Sep = <<>>]
             ws == << [Sep |-> sep, Query |-> NoQuery],
                      [Sep |-> sepOpen, Query |-> NoQuery] >>
                   \o w0
                   \o << [Sep |-> sepClose, Query |-> NoQuery] >>
         IN  QRef([qr.heap EXCEPT ![qr.ptr].where = @ \o ws], qr.ptr)

\* (*SelectQuery).WhereGroup(sep, fn), in its two halves around the call of
\* fn.  Before: saved := q.where; q.where = nil.
WhereGroupEnter(qr) ==
    LET q0 == Called(qr, "WhereGroup")
    IN  QRef([q0.heap EXCEPT ![q0.ptr].where = <<>>], q0.ptr)

\* After: q1 is what fn returned for WhereGroupEnter(qr); the conditions it
\* holds become the group and the saved ones are put back.
WhereGroup(qr, sep, q1) ==
    LET saved == Deref(qr).where
        where == Deref(q1).where
        q2    == QRef([q1.heap EXCEPT ![q1.ptr].where = saved], q1.ptr)
    IN  addWhereGroup(q2, sep, where)

\* (*SelectQuery).OrderExpr(expr)
OrderExpr(qr, expr) ==
    LET q0 == Called(qr, "OrderExpr")
    IN  QRef([q0.heap EXCEPT ![q0.ptr].order = Append(@, expr)], q0.ptr)

\* (*SelectQuery).Limit(n)
Limit(qr, n) ==
    LET q0 == Called(qr, "Limit")
    IN  QRef([q0.heap EXCEPT ![q0.ptr].limit = [set |-> TRUE, n |-> n]], q0.ptr)

\* (*SelectQuery).Offset(n)
Offset(qr, n) ==
    LET q0 == Called(qr, "Offset")
    IN  QRef([q0.heap EXCEPT ![q0.ptr].offset = [set |-> TRUE, n |-> n]], q0.ptr)

(***************************************************************************)
(* package filter                                                          *)
(***************************************************************************)
Contains(s, c) == \E i \in DOMAIN s : s[i] = c

ComparisonOps == {"=", "!=", ">", ">=", "<", "<="}

\* ApplyFilter without the case for NOT IN: the operator falls to the default
ApplyFilter_NoNotIn(query, filter) ==
    LET field == filter.Field
        op    == GetOperator(filter.Operator)
        value == filter.Value
    IN  CASE op \in ComparisonOps -> Where(query, Pred(op, FALSE, field, <<value>>))
          [] op = "LIKE" ->
                 Where(query, Pred("LIKE", FALSE, field,
                                   <<Str(<<"%">> \o FmtV(value) \o <<"%">>)>>))
          [] op = "IN"  -> Where(query, Pred("IN", FALSE, field, <<value>>))
          [] op = "IS NULL" -> Where(query, Pred("IS NULL", FALSE, field, <<>>))
          [] op = "IS NOT NULL" ->
                 Where(query, Pred("IS NOT NULL", FALSE, field, <<>>))
          [] OTHER -> Where(query, Pred("=", FALSE, field, <<value>>))

\* ApplyFilter wrapping a LIKE string whether or not it holds a wildcard
ApplyFilter_LikeAlwaysWraps(query, filter) ==
    LET field == filter.Field
        op    == GetOperator(filter.Operator)
        value == filter.Value
    IN  CASE op \in ComparisonOps ->
                 IF value.t = "str" /\ isDateString(value.s)
                 THEN Where(query, Pred(op, TRUE, field, <<value>>))
                 ELSE Where(query, Pred(op, FALSE, field, <<value>>))
          [] op = "LIKE" ->
                 IF value.t = "str"
                 THEN Where(query, Pred("LIKE", FALSE, field,
                                   <<Str(<<"%">> \o value.s \o <<"%">>)>>))
                 ELSE Where(query, Pred("LIKE", FALSE, field,
                                   <<Str(<<"%">> \o FmtV(value) \o <<"%">>)>>))
          [] op = "IN"  -> Where(query, Pred("IN", FALSE, field, <<value>>))
          [] op = "NOT IN" -> Where(query, Pred("NOT IN", FALSE, field, <<value>>))
          [] op = "IS NULL" -> Where(query, Pred("IS NULL", FALSE, field, <<>>))
          [] op = "IS NOT NULL" ->
                 Where(query, Pred("IS NOT NULL", FALSE, field, <<>>))
          [] op = "BETWEEN" ->
                 IF value.t = "arr" /\ Len(value.a) = 2
                 THEN IF /\ value.a[1].t = "str"
                         /\ value.a[2].t = "str"
                         /\ isDateString(value.a[1].s)
                         /\ isDateString(value.a[2].s)
                      THEN Where(query, Pred("BETWEEN", TRUE, field,
                                             <<value.a[1], value.a[2]>>))
                      ELSE Where(query, Pred("BETWEEN", FALSE, field,
                                             <<value.a[1], value.a[2]>>))
                 ELSE Where(query, Pred("=", FALSE, field, <<value>>))
          [] OTHER -> Where(query, Pred("=", FALSE, field, <<value>>))

ApplyFilter(query, filter) ==
    LET field == filter.Field
        op    == GetOperator(filter.Operator)
        value == filter.Value
    IN  CASE op \in ComparisonOps ->
                 IF value.t = "str" /\ isDateString(value.s)
                 THEN Where(query, Pred(op, TRUE, field, <<value>>))
                 ELSE Where(query, Pred(op, FALSE, field, <<value>>))
          [] op = "LIKE" ->
                 IF value.t = "str"
                 THEN IF ~Contains(value.s, "%")
                      THEN Where(query, Pred("LIKE", FALSE, field,
                                   <<Str(<<"%">> \o value.s \o <<"%">>)>>))
                      ELSE Where(query, Pred("LIKE", FALSE, field, <<value>>))
                 ELSE Where(query, Pred("LIKE", FALSE, field,
                                   <<Str(<<"%">> \o FmtV(value) \o <<"%">>)>>))
          [] op = "IN"  -> Where(query, Pred("IN", FALSE, field, <<value>>))
          [] op = "NOT IN" -> Where(query, Pred("NOT IN", FALSE, field, <<value>>))
          [] op = "IS NULL" -> Where(query, Pred("IS NULL", FALSE, field, <<>>))
          [] op = "IS NOT NULL" ->
                 Where(query, Pred("IS NOT NULL", FALSE, field, <<>>))
          [] op = "BETWEEN" ->
                 IF value.t = "arr" /\ Len(value.a) = 2
                 THEN IF /\ value.a[1].t = "str"
                         /\ value.a[2].t = "str"
                         /\ isDateString(value.a[1].s)
                         /\ isDateString(value.a[2].s)
                      THEN Where(query, Pred("BETWEEN", TRUE, field,
                                             <<value.a[1], value.a[2]>>))
                      ELSE Where(query, Pred("BETWEEN", FALSE, field,
                                             <<value.a[1], value.a[2]>>))
                 ELSE Where(query, Pred("=", FALSE, field, <<value>>))
          [] OTHER -> Where(query, Pred("=", FALSE, field, <<value>>))

\* for _, filter := range filters { q = ApplyFilter(q, filter) }
RECURSIVE ApplyFilters(_, _)
ApplyFilters(q, filters) ==
    IF filters = <<>> THEN q
    ELSE ApplyFilters(ApplyFilter(q, Head(filters)), Tail(filters))

\* the logic a group is compiled with
GroupLogic(group) ==
    LET logic == ToLower(group.Logic)
    IN  IF logic = <<>> THEN s_and ELSE logic

\* for _, nestedGroup := range group.Groups { q = q.WhereGroup(...) }
RECURSIVE ApplyNestedGroups(_, _)
ApplyNestedGroups(q, groups) ==
    IF groups = <<>> THEN q
    ELSE LET nestedGroup == Head(groups)
             nestedLogic == GroupLogic(nestedGroup)
         IN  ApplyNestedGroups(
                 WhereGroup(q, nestedLogic,
                            ApplyFilters(WhereGroupEnter(q), nestedGroup.Filters)),
                 Tail(groups))

\* ApplyFilterGroup compiling an empty group to a constant-true condition
ApplyFilterGroup_EmptyAsTrue(query, group) ==
    IF Len(group.Filters) = 0 /\ Len(group.Groups) = 0
    THEN Where(query, Pred("TRUE", FALSE, "", <<>>))
    ELSE WhereGroup(query, GroupLogic(group),
                    ApplyNestedGroups(
                        ApplyFilters(WhereGroupEnter(query), group.Filters),
                        group.Groups))

ApplyFilterGroup(query, group) ==
    IF Len(group.Filters) = 0 /\ Len(group.Groups) = 0 THEN query
    ELSE WhereGroup(query, GroupLogic(group),
                    ApplyNestedGroups(
                        ApplyFilters(WhereGroupEnter(query), group.Filters),
                        group.Groups))

(***************************************************************************)
(* What a compiled query selects.  bun renders the where list by writing,  *)
(* for every entry but the first, its Sep, and then its Query in brackets  *)
(* when it has one; the database reads the result as a boolean expression  *)
(* in which AND binds tighter than OR.                                     *)
(***************************************************************************)
Row(id, age, name, email) ==
    [id |-> Num(id), age |-> Num(age), first_name |-> Str(name), email |-> email]

n_User1 == <<"U","s","e","r","1">>
n_User2 == <<"U","s","e","r","2">>
n_User3 == <<"U","s","e","r","3">>
n_Jane  == <<"J","a","n","e">>
e_mail  == <<"a","@","b">>

\* the rows of TestNestedOrLogic, and rows at the edges of [25, 40]
Rows ==
    { Row(1, 25, n_User1, Str(e_mail)), Row(2, 60, n_User2, Null),
      Row(3, 20, n_User3, Str(e_mail)), Row(4, 40, n_Jane, Null),
      Row(5, 41, n_User1, Str(e_mail)), Row(6, 24, n_Jane, Str(e_mail)) }

Columns == {"id", "age", "first_name", "email"}

ColumnType(f) == IF f \in {"id", "age"} THEN "num" ELSE "str"

RECURSIVE LikeMatch(_, _)
LikeMatch(pat, s) ==
    IF pat = <<>> THEN s = <<>>
    ELSE IF Head(pat) = "%"
         THEN \E k \in 0..Len(s) : LikeMatch(Tail(pat), SubSeq(s, k + 1, Len(s)))
         ELSE s # <<>> /\ Head(s) = Head(pat) /\ LikeMatch(Tail(pat), Tail(s))

\* the predicate is one the database can evaluate against the table
PredOK(p) ==
    /\ p.Field \in Columns
    /\ ~p.Cast
    /\ CASE p.Kind \in {"=", "!="} -> p.Args[1].t = ColumnType(p.Field)
         [] p.Kind \in {">", ">=", "<", "<="} ->
                p.Args[1].t = "num" /\ ColumnType(p.Field) = "num"
         [] p.Kind = "LIKE" -> p.Args[1].t = "str" /\ ColumnType(p.Field) = "str"
         [] p.Kind \in {"IN", "NOT IN"} ->
                /\ p.Args[1].t = "arr"
                /\ Len(p.Args[1].a) > 0
                /\ \A i \in DOMAIN p.Args[1].a :
                       p.Args[1].a[i].t = ColumnType(p.Field)
         [] p.Kind \in {"IS NULL", "IS NOT NULL"} -> TRUE
         [] p.Kind = "BETWEEN" ->
                /\ p.Args[1].t = "num" /\ p.Args[2].t = "num"
                /\ ColumnType(p.Field) = "num"
         [] OTHER -> FALSE

EvalPred(p, row) ==
    LET v == row[p.Field]
    IN  CASE p.Kind = "IS NULL" -> v.t = "null"
          [] p.Kind = "IS NOT NULL" -> v.t # "null"
          [] v.t = "null" -> FALSE
          [] p.Kind = "="  -> v = p.Args[1]
          [] p.Kind = "!=" -> v # p.Args[1]
          [] p.Kind = ">"  -> v.n > p.Args[1].n
          [] p.Kind = ">=" -> v.n >= p.Args[1].n
          [] p.Kind = "<"  -> v.n < p.Args[1].n
          [] p.Kind = "<=" -> v.n <= p.Args[1].n
          [] p.Kind = "LIKE" -> LikeMatch(p.Args[1].s, v.s)
          [] p.Kind = "IN" ->
                 \E i \in DOMAIN p.Args[1].a : p.Args[1].a[i] = v
          [] p.Kind = "NOT IN" ->
                 \A i \in DOMAIN p.Args[1].a : p.Args[1].a[i] # v
          [] p.Kind = "BETWEEN" -> p.Args[1].n <= v.n /\ v.n <= p.Args[2].n
          [] OTHER -> FALSE

\* the predicates of a where list, in order
RECURSIVE WherePreds(_)
WherePreds(where) ==
    IF where = <<>> THEN <<>>
    ELSE (IF Head(where).Query = NoQuery THEN <<>> ELSE <<Head(where).Query>>)
         \o WherePreds(Tail(where))

\* a separator as the database reads it
SepToken(sep) ==
    LET l == ToLower(SelectSeq(sep, LAMBDA c : c # " "))
    IN  CASE l = s_and    -> "AND"
          [] l = s_or     -> "OR"
          [] l = sepOpen  -> "("
          [] l = sepClose -> ")"
          [] OTHER        -> "BAD"

Tok(k, v) == [k |-> k, v |-> v]

RECURSIVE WhereTokens(_, _, _)
WhereTokens(where, i, row) ==
    IF i > Len(where) THEN <<>>
    ELSE LET w == where[i]
         IN  (IF i > 1 /\ w.Sep # <<>> THEN <<Tok(SepToken(w.Sep), FALSE)>> ELSE <<>>)
             \o (IF w.Query # NoQuery
                 THEN <<Tok("P", PredOK(w.Query) /\ EvalPred(w.Query, row))>>
                 ELSE <<>>)
             \o WhereTokens(where, i + 1, row)

Res(ok, v, rest) == [ok |-> ok, v |-> v, rest |-> rest]

Failed == Res(FALSE, FALSE, <<>>)

RECURSIVE ParseOr(_)
RECURSIVE ParseOrTail(_)
RECURSIVE ParseAnd(_)
RECURSIVE ParseAndTail(_)
RECURSIVE ParseAtom(_)

ParseAtom(ts) ==
    IF ts = <<>> THEN Failed
    ELSE IF Head(ts).k = "P" THEN Res(TRUE, Head(ts).v, Tail(ts))
    ELSE IF Head(ts).k = "("
         THEN LET r == ParseOr(Tail(ts))
              IN  IF r.ok /\ r.rest # <<>> /\ Head(r.rest).k = ")"
                  THEN Res(TRUE, r.v, Tail(r.rest))
                  ELSE Failed
    ELSE Failed

ParseAndTail(acc) ==
    IF ~acc.ok THEN Failed
    ELSE IF acc.rest # <<>> /\ Head(acc.rest).k = "AND"
         THEN LET r == ParseAtom(Tail(acc.rest))
              IN  IF r.ok THEN ParseAndTail(Res(TRUE, acc.v /\ r.v, r.rest))
                  ELSE Failed
    ELSE acc

ParseAnd(ts) == ParseAndTail(ParseAtom(ts))

ParseOrTail(acc) ==
    IF ~acc.ok THEN Failed
    ELSE IF acc.rest # <<>> /\ Head(acc.rest).k = "OR"
         THEN LET r == ParseAnd(Tail(acc.rest))
              IN  IF r.ok THEN ParseOrTail(Res(TRUE, acc.v \/ r.v, r.rest))
                  ELSE Failed
    ELSE acc

ParseOr(ts) == ParseOrTail(ParseAnd(ts))

\* the WHERE clause is well-formed SQL over the table
WhereValid(where) ==
    /\ \A i \in DOMAIN where : where[i].Query # NoQuery => PredOK(where[i].Query)
    /\ \/ where = <<>>
       \/ LET r == ParseOr(WhereTokens(where, 1, CHOOSE row \in Rows : TRUE))
          IN  r.ok /\ r.rest = <<>>

\* the rows the query's WHERE clause keeps
Selected(q) ==
    IF q.where = <<>> THEN Rows
    ELSE IF ~WhereValid(q.where) THEN {}
    ELSE {row \in Rows : ParseOr(WhereTokens(q.where, 1, row)).v}

(***************************************************************************)
(* encoding/json: the filter wire format.  A document is malformed, or an  *)
(* object whose keys may be absent; Unmarshal leaves the zero value in the *)
(* field of an absent key.                                                 *)
(***************************************************************************)
BadJSON == [k |-> "bad", hasLogic |-> FALSE, logic |-> <<>>,
            filters |-> <<>>, groups |-> <<>>]

JObj(hasLogic, logic, filters, groups) ==
    [k |-> "obj", hasLogic |-> hasLogic, logic |-> logic,
     filters |-> filters, groups |-> groups]

RECURSIVE UnmarshalGroup(_)
UnmarshalGroup(doc) ==
    FilterGroup(IF doc.hasLogic THEN doc.logic ELSE <<>>,
                doc.filters,
                [i \in DOMAIN doc.groups |-> UnmarshalGroup(doc.groups[i])])

NoErr == [kind |-> "", arg |-> ""]
Err(kind, arg) == [kind |-> kind, arg |-> arg]

EmptyGroup == FilterGroup(<<>>, <<>>, <<>>)

\* filter.ParseFilters: (group, err)
ParseFilters(doc) ==
    IF doc.k = "bad" THEN [group |-> EmptyGroup, err |-> Err("json", "filter")]
    ELSE LET group == UnmarshalGroup(doc)
         IN  [group |-> IF group.Logic = <<>>
                        THEN [group EXCEPT !.Logic = s_and] ELSE group,
              err |-> NoErr]

(***************************************************************************)
(* The inputs the operations are called with.                              *)
(***************************************************************************)
s_xor    == <<"x","o","r">>
s_foo    == <<"f","o","o">>
s_ser    == <<"s","e","r">>
s_Upct   == <<"U","%">>
s_date   == <<"2","0","2","4","-","0","1","-","1","5">>
s_date2  == <<"2","0","2","4","-","1","2","-","3","1">>

DocumentedOperators ==
    {s_eq, s_neq, s_gt, s_gte, s_lt, s_lte, s_like, s_in, s_notin,
     s_isnull, s_isnotnull, s_between}

\* operator names as callers spell them
OperatorInputs ==
    UNION {CaseVariants(m) : m \in DocumentedOperators}
    \cup {s_foo, s_xor, <<>>, <<"e","q","u","a","l","s">>, <<"=">>}

\* the spellings used in leaves
LeafOperators ==
    DocumentedOperators
    \cup {ToUpper(s_gt), <<"B","e","t","w","e","e","n">>, ToUpper(s_notin),
          s_foo, <<>>}

RangeBounds == {20, 25, 40}

LeafValues ==
    {Num(21), Num(55), Str(n_User1), Str(s_ser), Str(s_Upct), Str(s_date),
     Arr(<<Num(1), Num(2)>>), Arr(<<Num(25)>>),
     Arr(<<Str(s_date), Str(s_date2)>>), Arr(<<Str(s_date), Num(40)>>), Null}
    \cup {Arr(<<Num(lo), Num(hi)>>) : lo \in RangeBounds, hi \in RangeBounds}

LeafInputs ==
    {Filter(f, op, v) : f \in {"age", "id", "first_name"},
                        op \in LeafOperators, v \in LeafValues}

\* the leaves of TestNestedOrLogic
TreeLeaves ==
    {Filter("age", s_gt, Num(21)), Filter("first_name", s_eq, Str(n_User1)),
     Filter("age", s_gt, Num(55))}

RECURSIVE SeqsOfLen(_, _)
SeqsOfLen(S, n) ==
    IF n = 0 THEN {<<>>}
    ELSE {<<x>> \o t : x \in S, t \in SeqsOfLen(S, n - 1)}

\* most groups (nodes) in one filter tree
MaxNodes == 3

\* groups of depth <= d with at most n leaves from P and at most k nodes, and
\* sequences of at most m of them within the same totals
RECURSIVE TreesOf(_, _, _, _, _)
RECURSIVE ForestsOf(_, _, _, _, _, _)
TreesOf(P, L, d, n, k) ==
    IF k < 1 THEN {}
    ELSE UNION { { FilterGroup(l, fs, gs) :
                     l \in L, fs \in SeqsOfLen(P, j),
                     gs \in (IF d = 0 THEN {<<>>}
                             ELSE ForestsOf(P, L, d - 1, n - j, k - 1, MaxGroups)) }
                 : j \in 0..n }

ForestsOf(P, L, d, n, k, m) ==
    {<<>>} \cup
    (IF m = 0 \/ k = 0 THEN {}
     ELSE UNION { { <<g>> \o rest : g \in TreesOf(P, L, d, n1, k1),
                                    rest \in ForestsOf(P, L, d, n - n1, k - k1, m - 1) }
                  : n1 \in 0..n, k1 \in 1..k })

\* trees whose every logic is a canonical "and" / "or"
Trees == TreesOf(TreeLeaves, {s_and, s_or}, MaxDepth, MaxLeaves, MaxNodes)

\* a group's logic as callers and documents give it; <<>> is an absent key
LogicInputs == {s_and, s_or, <<"O","R">>, <<"A","n","d">>, <<>>, s_xor}

\* a root with one leaf and at most one sub-group with one leaf, any logic
LogicTrees ==
    {FilterGroup(l, <<f>>, gs) :
        l \in LogicInputs, f \in TreeLeaves,
        gs \in {<<>>} \cup {<<FilterGroup(l2, <<f2>>, <<>>)>> :
                               l2 \in LogicInputs, f2 \in TreeLeaves}}
    \cup {FilterGroup(l, <<>>, <<>>) : l \in LogicInputs}

RECURSIVE JsonOf(_)
JsonOf(g) ==
    JObj(g.Logic # <<>>, g.Logic, g.Filters,
         [i \in DOMAIN g.Groups |-> JsonOf(g.Groups[i])])

(***************************************************************************)
(* package bunql: the orchestrator                                         *)
(***************************************************************************)
BunQL(filters, sort, pagination, aff, asf) ==
    [nil |-> FALSE, Filters |-> filters, Sort |-> sort, Pagination |-> pagination,
     AllowedFilterFields |-> aff, AllowedSortFields |-> asf]

\* a nil *BunQL
NilBunQL ==
    [nil |-> TRUE, Filters |-> EmptyGroup, Sort |-> <<>>,
     Pagination |-> NilPagination,
     AllowedFilterFields |-> <<>>, AllowedSortFields |-> <<>>]

NewWithAllowedFields(aff, asf) ==
    BunQL(FilterGroup(s_and, <<>>, <<>>), <<>>, NilPagination, aff, asf)

New == NewWithAllowedFields(<<>>, <<>>)

\* (*BunQL).WithFilters / WithSort / WithPagination
WithFilters(q, filters) == [q EXCEPT !.Filters = filters]

WithSort(q, sort) == [q EXCEPT !.Sort = sort]

WithPagination(q, pagination) == [q EXCEPT !.Pagination = pagination]

(***************************************************************************)
(* package sorting                                                         *)
(***************************************************************************)
BadSortJSON == [k |-> "bad", items |-> <<>>]

JSortArr(items) == [k |-> "arr", items |-> items]

JSortItem(f, d) == [field |-> f, dir |-> d]

\* ParseSort comparing the direction as written, without lower-casing it
ParseSort_ExactCase(doc) ==
    IF doc.k = "bad" THEN [sort |-> <<>>, err |-> Err("json", "sort")]
    ELSE [sort |-> [i \in DOMAIN doc.items |->
                      SortField(doc.items[i].field,
                                IF doc.items[i].dir = s_desc THEN s_desc ELSE s_asc)],
          err |-> NoErr]

\* sorting.ParseSort: (sortFields, err)
ParseSort(doc) ==
    IF doc.k = "bad" THEN [sort |-> <<>>, err |-> Err("json", "sort")]
    ELSE LET sortFields ==
                 [i \in DOMAIN doc.items |->
                     SortField(doc.items[i].field, doc.items[i].dir)]
         IN  [sort |-> [i \in DOMAIN sortFields |->
                          LET dir == ToLower(sortFields[i].Direction)
                          IN  IF dir # s_asc /\ dir # s_desc
                              THEN [sortFields[i] EXCEPT !.Direction = s_asc]
                              ELSE [sortFields[i] EXCEPT !.Direction = dir]],
              err |-> NoErr]

\* the expression fmt.Sprintf("%s %s", sort.Field, strings.ToUpper(sort.Direction))
OrderTerm(sort) == [field |-> sort.Field, dir |-> ToUpper(sort.Direction)]

RECURSIVE ApplySort(_, _)
ApplySort(query, sortFields) ==
    IF sortFields = <<>> THEN query
    ELSE ApplySort(OrderExpr(query, OrderTerm(Head(sortFields))), Tail(sortFields))

(***************************************************************************)
(* package pagination                                                      *)
(***************************************************************************)
\* ApplyPagination with the offset taken whenever there is a page size
ApplyPagination_OffsetAlways(query, p) ==
    IF p.PageSize > 0
    THEN Offset(Limit(query, p.PageSize), (p.Page - 1) * p.PageSize)
    ELSE query

ApplyPagination(query, p) ==
    IF p.PageSize > 0
    THEN LET q1 == Limit(query, p.PageSize)
         IN  IF p.Page > 0 THEN Offset(q1, (p.Page - 1) * p.PageSize) ELSE q1
    ELSE query

(***************************************************************************)
(* package bunql: Apply, ApplyWithCount, the allowlists                    *)
(***************************************************************************)
HasFilters(q) == Len(q.Filters.Filters) > 0 \/ Len(q.Filters.Groups) > 0

Staged(q, stages) == [q |-> q, stages |-> stages]

\* (*BunQL).Apply with the stages taken out of order: paging, sort, filter
Apply_PagingFirst(q, query) ==
    LET s1 == IF ~q.Pagination.nil
              THEN Staged(ApplyPagination(query, q.Pagination), <<"page">>)
              ELSE Staged(query, <<>>)
        s2 == IF Len(q.Sort) > 0
              THEN Staged(ApplySort(s1.q, q.Sort), Append(s1.stages, "sort"))
              ELSE s1
    IN  IF HasFilters(q)
        THEN Staged(ApplyFilterGroup(s2.q, q.Filters), Append(s2.stages, "filter"))
        ELSE s2

\* (*BunQL).Apply: the query returned, and the stages run on the way
Apply(q, query) ==
    LET s1 == IF HasFilters(q)
              THEN Staged(ApplyFilterGroup(query, q.Filters), <<"filter">>)
              ELSE Staged(query, <<>>)
        s2 == IF Len(q.Sort) > 0
              THEN Staged(ApplySort(s1.q, q.Sort), Append(s1.stages, "sort"))
              ELSE s1
    IN  IF ~q.Pagination.nil
        THEN Staged(ApplyPagination(s2.q, q.Pagination), Append(s2.stages, "page"))
        ELSE s2

\* (*BunQL).ApplyWithCount: countQuery := query is the caller's pointer again
ApplyWithCount(q, query) ==
    LET Ret(main, count) ==
            [heap |-> count.heap, mainQuery |-> main.q.ptr,
             countQuery |-> count.ptr, stages |-> main.stages]
        Count(main, countQuery0) ==
            Ret(main, IF HasFilters(q)
                      THEN ApplyFilterGroup(countQuery0, q.Filters)
                      ELSE countQuery0)
        Main(main) == Count(main, QRef(main.q.heap, query.ptr))
    IN  Main(Apply(q, query))

contains(slice, item) == \E i \in DOMAIN slice : slice[i] = item

\* validateFilterFields looking at the direct leaves of the group only
validateFilterFields_DirectOnly(g, allowedFields) ==
    LET bad == {i \in DOMAIN g.Filters : ~contains(allowedFields, g.Filters[i].Field)}
    IN  IF bad # {}
        THEN Err("filter field not allowed",
                 g.Filters[CHOOSE i \in bad : \A j \in bad : i <= j].Field)
        ELSE NoErr

RECURSIVE validateFilterFields(_, _)
validateFilterFields(g, allowedFields) ==
    LET bad == {i \in DOMAIN g.Filters : ~contains(allowedFields, g.Filters[i].Field)}
        RECURSIVE nested(_)
        nested(gs) ==
            IF gs = <<>> THEN NoErr
            ELSE LET e == validateFilterFields(Head(gs), allowedFields)
                 IN  IF e # NoErr THEN e ELSE nested(Tail(gs))
    IN  IF bad # {}
        THEN Err("filter field not allowed",
                 g.Filters[CHOOSE i \in bad : \A j \in bad : i <= j].Field)
        ELSE nested(g.Groups)

validateSortFields(sortFields, allowedFields) ==
    LET bad == {i \in DOMAIN sortFields : ~contains(allowedFields, sortFields[i].Field)}
    IN  IF bad # {}
        THEN Err("sort field not allowed",
                 sortFields[CHOOSE i \in bad : \A j \in bad : i <= j].Field)
        ELSE NoErr

\* a Go string holding a document: empty, or the text of doc
Param(empty, doc) == [empty |-> empty, doc |-> doc]

Failure(e) == [ql |-> NilBunQL, err |-> e]

\* the sort half of ParseFromParamsWithAllowedFields and what follows it
ParseSortAndPaging(ql, sortParam, page, pageSize) ==
    LET paged(q) == IF page > 0 \/ pageSize > 0
                    THEN WithPagination(q, Pagination(page, pageSize)) ELSE q
    IN  IF ~sortParam.empty
        THEN LET r == ParseSort(sortParam.doc)
             IN  IF r.err # NoErr THEN Failure(r.err)
                 ELSE LET e == IF Len(ql.AllowedSortFields) > 0
                               THEN validateSortFields(r.sort, ql.AllowedSortFields)
                               ELSE NoErr
                      IN  IF e # NoErr THEN Failure(e)
                          ELSE [ql |-> paged(WithSort(ql, r.sort)), err |-> NoErr]
        ELSE [ql |-> paged(ql), err |-> NoErr]

\* ParseFromParamsWithAllowedFields checking the sort before the filters
ParseFromParamsWithAllowedFields_SortFirst(filterParam, sortParam, page, pageSize, allowedFilterFields, allowedSortFields) ==
    LET ql == NewWithAllowedFields(allowedFilterFields, allowedSortFields)
        s  == ParseSortAndPaging(ql, sortParam, page, pageSize)
    IN  IF s.err # NoErr THEN s
        ELSE IF ~filterParam.empty
        THEN LET r == ParseFilters(filterParam.doc)
             IN  IF r.err # NoErr THEN Failure(r.err)
                 ELSE LET e == IF Len(ql.AllowedFilterFields) > 0
                               THEN validateFilterFields(r.group, ql.AllowedFilterFields)
                               ELSE NoErr
                      IN  IF e # NoErr THEN Failure(e)
                          ELSE [ql |-> WithFilters(s.ql, r.group), err |-> NoErr]
        ELSE s

ParseFromParamsWithAllowedFields(filterParam, sortParam, page, pageSize, allowedFilterFields, allowedSortFields) ==
    LET ql == NewWithAllowedFields(allowedFilterFields, allowedSortFields)
    IN  IF ~filterParam.empty
        THEN LET r == ParseFilters(filterParam.doc)
             IN  IF r.err # NoErr THEN Failure(r.err)
                 ELSE LET e == IF Len(ql.AllowedFilterFields) > 0
                               THEN validateFilterFields(r.group, ql.AllowedFilterFields)
                               ELSE NoErr
                      IN  IF e # NoErr THEN Failure(e)
                          ELSE ParseSortAndPaging(WithFilters(ql, r.group),
                                                  sortParam, page, pageSize)
        ELSE ParseSortAndPaging(ql, sortParam, page, pageSize)

ParseFromParams(filterParam, sortParam, page, pageSize) ==
    ParseFromParamsWithAllowedFields(filterParam, sortParam, page, pageSize,
                                     <<>>, <<>>)

(***************************************************************************)
(* strings.Split and net/url, as GetPaginationMetadata uses them.  A URI   *)
(* is a sequence of characters.  The base URIs given are origin-form       *)
(* references (a path that starts with one "/"), for which url.Parse       *)
(* finds neither a scheme nor an authority to parse.                       *)
(***************************************************************************)
\* position of the first c in s, 0 when there is none
RECURSIVE IndexOf(_, _)
IndexOf(s, c) ==
    IF s = <<>> THEN 0
    ELSE IF Head(s) = c THEN 1
    ELSE LET i == IndexOf(Tail(s), c) IN IF i = 0 THEN 0 ELSE i + 1

\* strings.Cut(s, c): before, after, found
Cut(s, c) ==
    LET i == IndexOf(s, c)
    IN  IF i = 0 THEN [before |-> s, after |-> <<>>, found |-> FALSE]
        ELSE [before |-> SubSeq(s, 1, i - 1), after |-> SubSeq(s, i + 1, Len(s)),
              found |-> TRUE]

\* strings.Split(s, c)
RECURSIVE Split(_, _)
Split(s, c) ==
    LET r == Cut(s, c)
    IN  IF r.found THEN <<r.before>> \o Split(r.after, c) ELSE <<s>>

DigitChars == {Digits[i] : i \in DOMAIN Digits}

HexDigits == DigitChars \cup {"a","b","c","d","e","f","A","B","C","D","E","F"}

\* the bytes the escapes of the inputs stand for
EscapedBytes ==
    (<<"2","0">> :> " ") @@ (<<"2","6">> :> "&") @@ (<<"3","D">> :> "=")
    @@ (<<"3","d">> :> "=") @@ (<<"2","5">> :> "%")

\* url.unescape: [ok, s]; mode "query" also turns "+" into a space
RECURSIVE unescape(_, _)
unescape(s, mode) ==
    IF s = <<>> THEN [ok |-> TRUE, s |-> <<>>]
    ELSE IF Head(s) = "%"
    THEN IF Len(s) < 3 \/ s[2] \notin HexDigits \/ s[3] \notin HexDigits
         THEN [ok |-> FALSE, s |-> <<>>]
         ELSE LET rest == unescape(SubSeq(s, 4, Len(s)), mode)
                  b    == IF <<s[2], s[3]>> \in DOMAIN EscapedBytes
                          THEN EscapedBytes[<<s[2], s[3]>>] ELSE "\\x"
              IN  [ok |-> rest.ok, s |-> IF rest.ok THEN <<b>> \o rest.s ELSE <<>>]
    ELSE LET rest == unescape(Tail(s), mode)
             c    == IF mode = "query" /\ Head(s) = "+" THEN " " ELSE Head(s)
         IN  [ok |-> rest.ok, s |-> IF rest.ok THEN <<c>> \o rest.s ELSE <<>>]

QueryUnescape(s) == unescape(s, "query")

Unreserved ==
    {LowerChars[i] : i \in DOMAIN LowerChars}
    \cup {UpperChars[i] : i \in DOMAIN UpperChars}
    \cup DigitChars \cup {"-", "_", ".", "~"}

\* the %XX form of the bytes that occur
EscapeOf ==
    [c \in {"&", "=", "%", "?", "/", "#", ";", "+"} |->
        CASE c = "&" -> <<"%","2","6">>
          [] c = "=" -> <<"%","3","D">>
          [] c = "%" -> <<"%","2","5">>
          [] c = "?" -> <<"%","3","F">>
          [] c = "/" -> <<"%","2","F">>
          [] c = "#" -> <<"%","2","3">>
          [] c = ";" -> <<"%","3","B">>
          [] c = "+" -> <<"%","2","B">>]

\* url.QueryEscape
RECURSIVE QueryEscape(_)
QueryEscape(s) ==
    IF s = <<>> THEN <<>>
    ELSE (IF Head(s) \in Unreserved THEN <<Head(s)>>
          ELSE IF Head(s) = " " THEN <<"+">>
          ELSE EscapeOf[Head(s)])
         \o QueryEscape(Tail(s))

\* url.Values: the keys present, each with its values in order
NoValues == [keys |-> {}, vals |-> <<>>]

ValuesOf(m, k) ==
    LET at == {i \in DOMAIN m.vals : m.vals[i].k = k}
    IN  IF at = {} THEN <<>> ELSE m.vals[CHOOSE i \in at : TRUE].v

\* m[k] = v
SetValues(m, k, v) ==
    [keys |-> m.keys \cup {k},
     vals |-> SelectSeq(m.vals, LAMBDA e : e.k # k) \o <<[k |-> k, v |-> v]>>]

\* m[k] = append(m[k], v)
AddValue(m, k, v) == SetValues(m, k, Append(ValuesOf(m, k), v))

\* url.ParseQuery, errors dropped as (*URL).Query drops them: a pair with a
\* semicolon or with a bad escape is skipped
RECURSIVE parseQuery(_, _)
parseQuery(m, query) ==
    IF query = <<>> THEN m
    ELSE LET c    == Cut(query, "&")
             pair == Cut(c.before, "=")
             key  == QueryUnescape(pair.before)
             val  == QueryUnescape(pair.after)
         IN  IF IndexOf(c.before, ";") > 0 \/ c.before = <<>> \/ ~key.ok \/ ~val.ok
             THEN parseQuery(m, c.after)
             ELSE parseQuery(AddValue(m, key.s, val.s), c.after)

\* url.Parse of an origin-form reference: [ok, RawQuery]
Parse(rawURL) ==
    LET f    == Cut(rawURL, "#")
        rest == f.before
        q    == IF rest # <<>> /\ rest[Len(rest)] = "?"
                   /\ IndexOf(rest, "?") = Len(rest)
                THEN [before |-> SubSeq(rest, 1, Len(rest) - 1), after |-> <<>>]
                ELSE Cut(rest, "?")
    IN  IF ~unescape(f.after, "fragment").ok \/ ~unescape(q.before, "path").ok
        THEN [ok |-> FALSE, RawQuery |-> <<>>]
        ELSE [ok |-> TRUE, RawQuery |-> q.after]

\* (*URL).Query
Query(u) == parseQuery(NoValues, u.RawQuery)

(***************************************************************************)
(* package bunql: GetPaginationMetadata                                    *)
(***************************************************************************)
\* Go's integer / and %: the quotient is truncated toward zero
GoDiv(a, b) ==
    IF (a >= 0) = (b >= 0)
    THEN (IF a >= 0 THEN a ELSE 0 - a) \div (IF b >= 0 THEN b ELSE 0 - b)
    ELSE 0 - ((IF a >= 0 THEN a ELSE 0 - a) \div (IF b >= 0 THEN b ELSE 0 - b))

GoMod(a, b) == a - b * GoDiv(a, b)

NilString == [nil |-> TRUE, s |-> <<>>]

StringPtr(s) == [nil |-> FALSE, s |-> s]

PaginationMetadataOutput(total, prev, next, totalItem) ==
    [Total |-> total, Prev |-> prev, Next |-> next, TotalItem |-> totalItem]

k_page     == <<"p","a","g","e">>
k_pageSize == <<"p","a","g","e","S","i","z","e">>

\* the existing query parameters of the base URI
queryParamsOf(baseURI) ==
    LET parts == Split(baseURI, "?")
    IN  IF Len(parts) > 1 /\ parts[2] # <<>>
        THEN LET parsedURL == Parse(baseURI)
             IN  IF parsedURL.ok THEN Query(parsedURL) ELSE NoValues
        ELSE NoValues

\* prevParams / nextParams: a copy with page and pageSize set
LinkParams(queryParams, page, pageSize) ==
    SetValues(SetValues(queryParams, k_page, <<IntToStr(page)>>),
              k_pageSize, <<IntToStr(pageSize)>>)

\* the two nested loops that build queryStr; order is the order in which
\* range visits the keys of the map, which the language leaves open
RECURSIVE BuildQuery(_, _, _)
BuildQuery(queryStr, m, order) ==
    IF order = <<>> THEN queryStr
    ELSE LET k == Head(order)
             RECURSIVE Each(_, _)
             Each(str, values) ==
                 IF values = <<>> THEN str
                 ELSE Each(str \o (IF str = <<>> THEN <<"?">> ELSE <<"&">>)
                               \o QueryEscape(k) \o <<"=">>
                               \o QueryEscape(Head(values)),
                           Tail(values))
         IN  BuildQuery(Each(queryStr, ValuesOf(m, k)), m, Tail(order))

\* total without the step that counts a last, partly filled page
total_NoBump(totalCount, pageSize) == GoDiv(totalCount, pageSize)

\* total := totalCount / p.PageSize; if totalCount%p.PageSize > 0 { total++ }
total(totalCount, pageSize) ==
    GoDiv(totalCount, pageSize) + (IF GoMod(totalCount, pageSize) > 0 THEN 1 ELSE 0)

\* currentPage taken from p.Page as it is
currentPage_Unclamped(p) == p.Page

\* currentPage := p.Page; if currentPage < 1 { currentPage = 1 }
currentPage(p) == IF p.Page < 1 THEN 1 ELSE p.Page

\* GetPaginationMetadata building a next link on the last page as well
GetPaginationMetadata_NextOnLastPage(p, totalCount, baseURI, prevOrder, nextOrder) ==
    IF p.nil \/ p.PageSize <= 0
    THEN PaginationMetadataOutput(1, NilString, NilString, totalCount)
    ELSE LET baseURL == Split(baseURI, "?")[1]
             queryParams == queryParamsOf(baseURI)
             prevURL ==
                 IF currentPage(p) > 1
                 THEN StringPtr(baseURL \o
                        BuildQuery(<<>>,
                                   LinkParams(queryParams, currentPage(p) - 1,
                                              p.PageSize),
                                   prevOrder))
                 ELSE NilString
             nextURL ==
                 IF currentPage(p) <= total(totalCount, p.PageSize)
                 THEN StringPtr(baseURL \o
                        BuildQuery(<<>>,
                                   LinkParams(queryParams, currentPage(p) + 1,
                                              p.PageSize),
                                   nextOrder))
                 ELSE NilString
         IN  PaginationMetadataOutput(total(totalCount, p.PageSize),
                                      prevURL, nextURL, totalCount)

\* GetPaginationMetadata with the iteration orders of its two map loops
GetPaginationMetadata(p, totalCount, baseURI, prevOrder, nextOrder) ==
    IF p.nil \/ p.PageSize <= 0
    THEN PaginationMetadataOutput(1, NilString, NilString, totalCount)
    ELSE LET baseURL == Split(baseURI, "?")[1]
             queryParams == queryParamsOf(baseURI)
             prevURL ==
                 IF currentPage(p) > 1
                 THEN StringPtr(baseURL \o
                        BuildQuery(<<>>,
                                   LinkParams(queryParams, currentPage(p) - 1,
                                              p.PageSize),
                                   prevOrder))
                 ELSE NilString
             nextURL ==
                 IF currentPage(p) < total(totalCount, p.PageSize)
                 THEN StringPtr(baseURL \o
                        BuildQuery(<<>>,
                                   LinkParams(queryParams, currentPage(p) + 1,
                                              p.PageSize),
                                   nextOrder))
                 ELSE NilString
         IN  PaginationMetadataOutput(total(totalCount, p.PageSize),
                                      prevURL, nextURL, totalCount)

(***************************************************************************)
(* State.                                                                  *)
(*   pc         the operation that ran last                                *)
(*   heap       the bun.SelectQuery objects, by pointer (1 = the caller's  *)
(*              base query)                                                *)
(*   before     the base query as it was when the last operation began     *)
(*   out        the pointer the last filter operation returned             *)
(*   group, leaf  the arguments of the last filter operation               *)
(*   opIn, opKind, opValid   argument and results of the registry calls    *)
(*   ql, err    the orchestrator in hand and the last error returned       *)
(*   params     the arguments of the last ParseFromParamsWithAllowedFields *)
(*   mainQuery, countQuery   the pointers Apply / ApplyWithCount returned  *)
(*   stages     the stages Apply ran, in order                             *)
(*   args, ret  arguments and results of the last call of a helper that    *)
(*              takes and returns values only                              *)
(*   db         the statements the database was asked to execute           *)
(*   instances  the BunQL objects of concurrent callers, by caller         *)
(*   callers    each concurrent caller's call, position in it and results  *)
(*   visited    the pages a walk along the Next links has visited          *)
(***************************************************************************)
VARIABLES pc, heap, before, out, group, leaf, opIn, opKind, opValid, args, ret,
          ql, err, params, mainQuery, countQuery, stages,
          db, instances, callers, visited

vars == <<pc, heap, before, out, group, leaf, opIn, opKind, opValid, args, ret,
          ql, err, params, mainQuery, countQuery, stages,
          db, instances, callers, visited>>

filterVars == <<before, out, group, leaf>>
opVars     == <<opIn, opKind, opValid>>
orchVars   == <<ql, err, params, mainQuery, countQuery, stages>>
fnVars     == <<args, ret>>
envVars    == <<db, instances, callers, visited>>

NoLeaf == Filter("", <<>>, Null)

NoParams ==
    [filterParam |-> Param(TRUE, BadJSON), sortParam |-> Param(TRUE, BadSortJSON),
     page |-> 0, pageSize |-> 0,
     allowedFilterFields |-> <<>>, allowedSortFields |-> <<>>]

\* db.NewSelect().Model(...): the caller's base query, nothing added yet
InitQuery ==
    /\ heap = <<NewSelectQuery>>
    /\ before = NewSelectQuery
    /\ out = 0
    /\ group = EmptyGroup
    /\ leaf = NoLeaf

InitOrch ==
    /\ ql = NilBunQL
    /\ err = NoErr
    /\ params = NoParams
    /\ mainQuery = 0
    /\ countQuery = 0
    /\ stages = <<>>

\* no helper called yet
InitFn ==
    /\ args = <<>>
    /\ ret = <<>>

\* the database has executed nothing; no concurrent callers; no page visited
InitEnv ==
    /\ db = <<>>
    /\ instances = <<>>
    /\ callers = <<>>
    /\ visited = <<>>

Init ==
    /\ pc = "start"
    /\ InitQuery
    /\ InitOrch
    /\ InitFn
    /\ InitEnv
    /\ opIn = <<>>
    /\ opKind = ""
    /\ opValid = FALSE

(***************************************************************************)
(* The operator registry called on its own.                                *)
(***************************************************************************)
\* the caller has an operator name in hand
InitOp ==
    /\ pc = "start"
    /\ InitQuery
    /\ InitOrch
    /\ InitFn
    /\ InitEnv
    /\ opIn \in OperatorInputs
    /\ opKind = ""
    /\ opValid = FALSE

CallGetOperator ==
    /\ pc \in {"start", "IsValidOperator"}
    /\ pc' = IF pc = "start" THEN "GetOperator" ELSE "both"
    /\ opKind' = GetOperator(opIn)
    /\ UNCHANGED <<envVars, heap, opIn, opValid, filterVars, orchVars, fnVars>>

CallIsValidOperator ==
    /\ pc \in {"start", "GetOperator"}
    /\ pc' = IF pc = "start" THEN "IsValidOperator" ELSE "both"
    /\ opValid' = IsValidOperator(opIn)
    /\ UNCHANGED <<envVars, heap, opIn, opKind, filterVars, orchVars, fnVars>>

NextOp == CallGetOperator \/ CallIsValidOperator

SpecOp == InitOp /\ [][NextOp]_vars

(***************************************************************************)
(* The filter compiler called on its own, on the caller's base query.      *)
(***************************************************************************)
CallerPredicate == Pred(">", FALSE, "id", <<Num(0)>>)

\* the caller puts a condition of its own on the base query first
CallerWhere ==
    /\ pc = "start"
    /\ pc' = "based"
    /\ heap' = Where(QRef(heap, 1), CallerPredicate).heap
    /\ UNCHANGED <<envVars, filterVars, opVars, fnVars, orchVars>>

CallParseFilters ==
    /\ pc \in {"start", "based"}
    /\ \E g \in LogicTrees \cup {BadJSON} :
          LET doc == IF g = BadJSON THEN BadJSON ELSE JsonOf(g)
              r   == ParseFilters(doc)
          IN  /\ group' = r.group
              /\ err' = r.err
              /\ pc' = IF r.err = NoErr THEN "parsed" ELSE "failed"
    /\ UNCHANGED <<envVars, heap, before, out, leaf, opVars, fnVars, ql, params, mainQuery,
                   countQuery, stages>>

DoApplyFilterGroup(g, via) ==
    LET r == ApplyFilterGroup(QRef(heap, 1), g)
    IN  /\ before' = heap[1]
        /\ group' = g
        /\ heap' = r.heap
        /\ out' = r.ptr
        /\ pc' = via
        /\ UNCHANGED <<envVars, leaf, opVars, fnVars, orchVars>>

CallApplyFilterGroup ==
    \/ /\ pc \in {"start", "based"}
       /\ \E g \in Trees \cup LogicTrees : DoApplyFilterGroup(g, "ApplyFilterGroup")
    \/ /\ pc = "parsed"
       /\ DoApplyFilterGroup(group, "ApplyFilterGroup")

CallApplyFilter ==
    /\ pc \in {"start", "based"}
    /\ \E f \in LeafInputs :
          LET r == ApplyFilter(QRef(heap, 1), f)
          IN  /\ before' = heap[1]
              /\ leaf' = f
              /\ heap' = r.heap
              /\ out' = r.ptr
              /\ pc' = "ApplyFilter"
    /\ UNCHANGED <<envVars, group, opVars, fnVars, orchVars>>

NextFilter ==
    CallerWhere \/ CallParseFilters \/ CallApplyFilterGroup \/ CallApplyFilter

SpecFilter == Init /\ [][NextFilter]_vars

(***************************************************************************)
(* The construction helper called with raw parameters.                     *)
(***************************************************************************)
\* leaves on two fields, one of them in no allowlist but the last
ParamLeaves ==
    {Filter("age", s_gt, Num(21)), Filter("email", s_isnull, Null)}

ParamTrees == TreesOf(ParamLeaves, {s_and}, MaxDepth, MaxLeaves, MaxNodes)

FilterParams ==
    {Param(TRUE, BadJSON), Param(FALSE, BadJSON)}
    \cup {Param(FALSE, JsonOf(g)) : g \in ParamTrees}

SortParams ==
    {Param(TRUE, BadSortJSON), Param(FALSE, BadSortJSON),
     Param(FALSE, JSortArr(<<>>)),
     Param(FALSE, JSortArr(<<JSortItem("age", ToUpper(s_desc))>>)),
     Param(FALSE, JSortArr(<<JSortItem("age", s_asc), JSortItem("email", <<>>)>>)),
     Param(FALSE, JSortArr(<<JSortItem("email", s_foo), JSortItem("id", s_desc)>>))}

PagingParams == {<<0, 0>>, <<1, 2>>, <<0, 2>>}

AllowedFilterInputs == {<<>>, <<"age">>, <<"id">>, <<"age", "email">>}

AllowedSortInputs == {<<>>, <<"age">>}

DoParse(fp, sp, page, pageSize, aff, asf) ==
    LET r == ParseFromParamsWithAllowedFields(fp, sp, page, pageSize, aff, asf)
    IN  /\ params' = [filterParam |-> fp, sortParam |-> sp, page |-> page,
                      pageSize |-> pageSize, allowedFilterFields |-> aff,
                      allowedSortFields |-> asf]
        /\ ql' = r.ql
        /\ err' = r.err
        /\ UNCHANGED <<envVars, heap, filterVars, opVars, fnVars, mainQuery, countQuery, stages>>

CallParseFromParamsWithAllowedFields ==
    /\ pc = "start"
    /\ pc' = "ParseFromParamsWithAllowedFields"
    /\ \E fp \in FilterParams, sp \in SortParams, pg \in PagingParams,
          aff \in AllowedFilterInputs, asf \in AllowedSortInputs :
          DoParse(fp, sp, pg[1], pg[2], aff, asf)

\* ParseFromParams passes nil for both allowlists
CallParseFromParams ==
    /\ pc = "start"
    /\ pc' = "ParseFromParams"
    /\ \E fp \in FilterParams, sp \in SortParams, pg \in PagingParams :
          DoParse(fp, sp, pg[1], pg[2], <<>>, <<>>)

NextParse == CallParseFromParamsWithAllowedFields \/ CallParseFromParams

SpecParse == Init /\ [][NextParse]_vars

(***************************************************************************)
(* The orchestrator: built, configured, and applied to the base query.     *)
(***************************************************************************)
OrchFilters ==
    {FilterGroup(l, <<f>>, gs) :
        l \in {s_and, s_or}, f \in TreeLeaves,
        gs \in {<<>>} \cup {<<FilterGroup(l2, <<f2>>, <<>>)>> :
                               l2 \in {s_and, s_or}, f2 \in TreeLeaves}}
    \cup {FilterGroup(s_and, <<>>, <<>>)}

OrchSorts ==
    {<<>>, <<SortField("age", s_asc)>>,
     <<SortField("age", s_desc), SortField("first_name", s_asc)>>,
     <<SortField("age", s_asc), SortField("age", s_asc)>>}

OrchPaginations ==
    {NilPagination} \cup {Pagination(p, n) : p \in {0, 1, 2}, n \in {0, 2}}

Configuring ==
    {"New", "NewWithAllowedFields", "ParseFromParamsWithAllowedFields",
     "WithFilters", "WithSort", "WithPagination"}

CallNew ==
    /\ pc = "start"
    /\ pc' = "New"
    /\ ql' = New
    /\ UNCHANGED <<envVars, heap, filterVars, opVars, fnVars, err, params, mainQuery, countQuery,
                   stages>>

CallWithFilters ==
    /\ pc \in Configuring
    /\ pc' = "WithFilters"
    /\ \E g \in OrchFilters : ql' = WithFilters(ql, g)
    /\ UNCHANGED <<envVars, heap, filterVars, opVars, fnVars, err, params, mainQuery, countQuery,
                   stages>>

CallWithSort ==
    /\ pc \in Configuring
    /\ pc' = "WithSort"
    /\ \E sort \in OrchSorts : ql' = WithSort(ql, sort)
    /\ UNCHANGED <<envVars, heap, filterVars, opVars, fnVars, err, params, mainQuery, countQuery,
                   stages>>

CallWithPagination ==
    /\ pc \in Configuring
    /\ pc' = "WithPagination"
    /\ \E pg \in OrchPaginations : ql' = WithPagination(ql, pg)
    /\ UNCHANGED <<envVars, heap, filterVars, opVars, fnVars, err, params, mainQuery, countQuery,
                   stages>>

CallApply ==
    /\ pc \in Configuring
    /\ pc' = "Apply"
    /\ \E r \in {Apply(ql, QRef(heap, 1))} :
          /\ before' = heap[1]
          /\ heap' = r.q.heap
          /\ mainQuery' = r.q.ptr
          /\ stages' = r.stages
    /\ UNCHANGED <<envVars, out, group, leaf, opVars, fnVars, ql, err, params, countQuery>>

CallApplyWithCount ==
    /\ pc \in Configuring
    /\ pc' = "ApplyWithCount"
    /\ \E r \in {ApplyWithCount(ql, QRef(heap, 1))} :
          /\ before' = heap[1]
          /\ heap' = r.heap
          /\ mainQuery' = r.mainQuery
          /\ countQuery' = r.countQuery
          /\ stages' = r.stages
    /\ UNCHANGED <<envVars, out, group, leaf, opVars, fnVars, ql, err, params>>

Next ==
    \/ CallNew
    \/ CallWithFilters
    \/ CallWithSort
    \/ CallWithPagination
    \/ CallApply
    \/ CallApplyWithCount

Spec == Init /\ [][Next]_vars

(***************************************************************************)
(* The pagination stage and the pagination metadata called on their own.   *)
(***************************************************************************)
PageInputs == -1 .. 3

PageSizeInputs == {-1, 0, 1, 2, 10}

CallApplyPagination ==
    /\ pc \in {"start", "based"}
    /\ pc' = "ApplyPagination"
    /\ \E page \in PageInputs, size \in PageSizeInputs :
          \E r \in {ApplyPagination(QRef(heap, 1), Pagination(page, size))} :
             /\ args' = [p |-> Pagination(page, size)]
             /\ before' = heap[1]
             /\ heap' = r.heap
             /\ out' = r.ptr
    /\ UNCHANGED <<envVars, group, leaf, opVars, ret, orchVars>>

\* base URIs: /u, /u?, /u?a=1, /u?a=1&a=2, /u?page=7&pageSize=9&a=1, /u?a=b%20c, /u?a=%zz&b=1,
\* /u?a=1;b=2, /u%zz?a=1, /u?a=1#f, /u??a=1, /u?a, /u?b=2&a=1
BaseURIs ==
    {<<"/","u">>,
     <<"/","u","?">>,
     <<"/","u","?","a","=","1">>,
     <<"/","u","?","a","=","1","&","a","=","2">>,
     <<"/","u","?","p","a","g","e","=","7","&","p","a","g","e","S","i","z","e","=","9","&","a","=","1">>,
     <<"/","u","?","a","=","b","%","2","0","c">>,
     <<"/","u","?","a","=","%","z","z","&","b","=","1">>,
     <<"/","u","?","a","=","1",";","b","=","2">>,
     <<"/","u","%","z","z","?","a","=","1">>,
     <<"/","u","?","a","=","1","#","f">>,
     <<"/","u","?","?","a","=","1">>,
     <<"/","u","?","a">>,
     <<"/","u","?","b","=","2","&","a","=","1">>}

MetaPaginations ==
    {NilPagination}
    \cup {Pagination(page, size) : page \in {-1, 0, 1, 2, 10}, size \in {-1, 0, 2, 10}}

TotalCounts == {-5, 0, 5, 100}

\* the orders in which a map with these keys can be visited
KeyOrders(keys) ==
    {o \in [1 .. Cardinality(keys) -> keys] :
        \A i, j \in DOMAIN o : i # j => o[i] # o[j]}

CallGetPaginationMetadata ==
    /\ pc = "start"
    /\ pc' = "GetPaginationMetadata"
    /\ \E p \in MetaPaginations, totalCount \in TotalCounts, baseURI \in BaseURIs :
          LET keys == LinkParams(queryParamsOf(baseURI), 0, 0).keys
          IN  \E prevOrder \in KeyOrders(keys), nextOrder \in KeyOrders(keys) :
                 /\ args' = [p |-> p, totalCount |-> totalCount, baseURI |-> baseURI]
                 /\ ret' = GetPaginationMetadata(p, totalCount, baseURI,
                                                 prevOrder, nextOrder)
    /\ UNCHANGED <<envVars, heap, filterVars, opVars, orchVars>>

NextPage == CallerWhere \/ CallApplyPagination \/ CallGetPaginationMetadata

SpecPage == Init /\ [][NextPage]_vars

(***************************************************************************)
(* filter.validateFilter, filter.ParseFilterParam, json.Marshal of a       *)
(* dto.FilterGroup, bunql.ParseFilterParams, ParseMultipleFilterParams     *)
(***************************************************************************)
\* validateFilter with the field left unchecked
validateFilter_AnyField(filter) ==
    IF ~IsValidOperator(filter.Operator)
    THEN Err("invalid operator", filter.Operator)
    ELSE NoErr

\* validateFilter: the error, NoErr for nil
validateFilter(filter) ==
    IF filter.Field = "" THEN Err("filter field cannot be empty", "")
    ELSE IF ~IsValidOperator(filter.Operator)
    THEN Err("invalid operator", filter.Operator)
    ELSE NoErr

\* the first error in a list of errors, NoErr when there is none
RECURSIVE FirstErr(_)
FirstErr(errs) ==
    IF errs = <<>> THEN NoErr
    ELSE IF Head(errs) # NoErr THEN Head(errs) ELSE FirstErr(Tail(errs))

\* validateFilterGroup that does not descend into nested groups
validateFilterGroup_Shallow(g) ==
    IF ToLower(g.Logic) # s_and /\ ToLower(g.Logic) # s_or
    THEN Err("filter group logic must be 'and' or 'or'", "")
    ELSE FirstErr([i \in DOMAIN g.Filters |-> validateFilter(g.Filters[i])])

\* validateFilterGroup: the error, NoErr for nil
RECURSIVE validateFilterGroup(_)
validateFilterGroup(g) ==
    IF ToLower(g.Logic) # s_and /\ ToLower(g.Logic) # s_or
    THEN Err("filter group logic must be 'and' or 'or'", "")
    ELSE IF FirstErr([i \in DOMAIN g.Filters |->
                         validateFilter(g.Filters[i])]) # NoErr
    THEN FirstErr([i \in DOMAIN g.Filters |-> validateFilter(g.Filters[i])])
    ELSE FirstErr([i \in DOMAIN g.Groups |->
                      validateFilterGroup(g.Groups[i])])

\* filter.ParseFilterParam(key, op, value, logic): (group, err)
ParseFilterParam(key, op, value, logic) ==
    LET filter == Filter(key, op, value)
    IN  IF validateFilter(filter) # NoErr
        THEN [group |-> EmptyGroup, err |-> validateFilter(filter)]
        ELSE [group |-> FilterGroup(IF logic = s_or THEN s_or ELSE s_and,
                                    <<filter>>, <<>>),
              err |-> NoErr]

\* json.Marshal of an interface{} value: the JSON value, written as the Go
\* value Unmarshal decodes it to (a number is a float64, an array is a
\* []interface{})
RECURSIVE MarshalValue(_)
MarshalValue(v) ==
    CASE v.t = "int"      -> Num(v.n)
      [] v.t = "[]string" -> Arr([i \in DOMAIN v.a |-> Str(v.a[i])])
      [] v.t = "arr"      -> Arr([i \in DOMAIN v.a |-> MarshalValue(v.a[i])])
      [] OTHER            -> v

\* json.Marshal fails on a value of an unsupported type
RECURSIVE Marshalable(_)
Marshalable(v) ==
    /\ v.t # "func"
    /\ v.t = "arr" => \A i \in DOMAIN v.a : Marshalable(v.a[i])

RECURSIVE GroupMarshalable(_)
GroupMarshalable(g) ==
    /\ \A i \in DOMAIN g.Filters : Marshalable(g.Filters[i].Value)
    /\ \A i \in DOMAIN g.Groups : GroupMarshalable(g.Groups[i])

\* the document json.Marshal writes for a dto.FilterGroup: every key is
\* written, none is omitted
RECURSIVE MarshalGroup(_)
MarshalGroup(g) ==
    JObj(TRUE, g.Logic,
         [i \in DOMAIN g.Filters |->
             Filter(g.Filters[i].Field, g.Filters[i].Operator,
                    MarshalValue(g.Filters[i].Value))],
         [i \in DOMAIN g.Groups |-> MarshalGroup(g.Groups[i])])

\* string(jsonBytes), or "" with the error
Marshal(g) ==
    IF GroupMarshalable(g)
    THEN [json |-> Param(FALSE, MarshalGroup(g)), err |-> NoErr]
    ELSE [json |-> Param(TRUE, BadJSON),
          err |-> Err("failed to marshal filter group to JSON", "")]

\* bunql.ParseFilterParams: (string, error)
ParseFilterParams(field, operator, value, logic) ==
    LET r == ParseFilterParam(field, operator, value, logic)
    IN  IF r.err # NoErr THEN [json |-> Param(TRUE, BadJSON), err |-> r.err]
        ELSE Marshal(r.group)

\* the loop of ParseMultipleFilterParams over filters: (filterGroup, err)
RECURSIVE AddFilters(_, _, _)
AddFilters(filterGroup, filters, logic) ==
    IF filters = <<>> THEN [group |-> filterGroup, err |-> NoErr]
    ELSE LET f == Head(filters)
             singleFilterGroup(r) == r.group
             next(r) == [filterGroup EXCEPT !.Filters = @ \o singleFilterGroup(r).Filters]
             step(r) == IF r.err # NoErr THEN [group |-> filterGroup, err |-> r.err]
                        ELSE AddFilters(next(r), Tail(filters), logic)
         IN  step(ParseFilterParam(f.Field, f.Operator, f.Value, logic))

\* ParseMultipleFilterParams taking the logic as spelled
ParseMultipleFilterParams_NoLower(filters, logic) ==
    LET l == IF logic # s_and /\ logic # s_or THEN s_and ELSE logic
        done(r) == IF r.err # NoErr THEN [json |-> Param(TRUE, BadJSON), err |-> r.err]
                   ELSE Marshal(r.group)
    IN  done(AddFilters(FilterGroup(l, <<>>, <<>>), filters, l))

\* bunql.ParseMultipleFilterParams: (string, error)
ParseMultipleFilterParams(filters, logic) ==
    LET l == IF ToLower(logic) # s_and /\ ToLower(logic) # s_or
             THEN s_and ELSE ToLower(logic)
        done(r) == IF r.err # NoErr THEN [json |-> Param(TRUE, BadJSON), err |-> r.err]
                   ELSE Marshal(r.group)
    IN  done(AddFilters(FilterGroup(l, <<>>, <<>>), filters, l))

(***************************************************************************)
(* bunql.ParseSortParams                                                   *)
(***************************************************************************)
\* the pieces of the format string `[{"field": "%s", "dir": "%s"}]`
fmt_field == <<"[","{","\"","f","i","e","l","d","\"",":"," ","\"">>

fmt_dir == <<"\"",","," ","\"","d","i","r","\"",":"," ","\"">>

fmt_end == <<"\"","}","]">>

\* ParseSortParams(sortby, sortDirection): the sort JSON text, "" without sortby
ParseSortParams(sortby, sortDirection) ==
    LET dir == IF sortDirection # s_asc /\ sortDirection # s_desc
               THEN s_asc ELSE sortDirection
    IN  IF sortby = <<>> THEN <<>>
        ELSE fmt_field \o sortby \o fmt_dir \o dir \o fmt_end

(***************************************************************************)
(* The sort helpers called on their own.                                   *)
(***************************************************************************)
s_Desc == <<"D","e","s","c">>

SortFieldNames == {"age", "first_name"}

\* the "dir" members of sort documents; <<>> is a missing or empty member
SortDocDirs == {s_asc, s_desc, ToUpper(s_asc), ToUpper(s_desc), s_Desc, s_foo, <<>>}

SortDocItems == {JSortItem(f, d) : f \in SortFieldNames, d \in SortDocDirs}

SortDocs ==
    {BadSortJSON, JSortArr(<<>>)}
      \cup {JSortArr(<<a>>) : a \in SortDocItems}
      \cup {JSortArr(<<a, b>>) : a, b \in SortDocItems}

CallParseSort ==
    /\ pc \in {"start", "based"}
    /\ pc' = "ParseSort"
    /\ \E doc \in SortDocs :
          /\ args' = [doc |-> doc]
          /\ ret' = ParseSort(doc)
    /\ UNCHANGED <<envVars, heap, filterVars, opVars, orchVars>>

\* sortby values: "", age, first_name, a"b
SortbyInputs ==
    {<<>>, <<"a","g","e">>, <<"f","i","r","s","t","_","n","a","m","e">>,
     <<"a","\"","b">>}

SortDirectionInputs ==
    {s_asc, s_desc, ToUpper(s_asc), ToUpper(s_desc), s_Desc, s_foo, <<>>}

CallParseSortParams ==
    /\ pc \in {"start", "based"}
    /\ pc' = "ParseSortParams"
    /\ \E sortby \in SortbyInputs, sortDirection \in SortDirectionInputs :
          /\ args' = [sortby |-> sortby, sortDirection |-> sortDirection]
          /\ ret' = ParseSortParams(sortby, sortDirection)
    /\ UNCHANGED <<envVars, heap, filterVars, opVars, orchVars>>

\* []dto.SortField values a caller hands to WithSort
DirectSortFields ==
    {SortField(f, d) : f \in SortFieldNames,
                       d \in {s_asc, s_desc, ToUpper(s_desc), s_foo, <<>>}}

DirectSorts ==
    {<<>>} \cup {<<a>> : a \in DirectSortFields}
           \cup {<<a, b>> : a, b \in DirectSortFields}

\* sorting.ApplySort(query, b.Sort) on the list just parsed ...
ApplyParsedSort ==
    /\ pc = "ParseSort"
    /\ ret.err = NoErr
    /\ \E r \in {ApplySort(QRef(heap, 1), ret.sort)} :
          /\ args' = [sortFields |-> ret.sort]
          /\ before' = heap[1]
          /\ heap' = r.heap
          /\ out' = r.ptr

\* ... or on a list the caller built
ApplyDirectSort ==
    /\ pc \in {"start", "based"}
    /\ \E sortFields \in DirectSorts :
          \E r \in {ApplySort(QRef(heap, 1), sortFields)} :
             /\ args' = [sortFields |-> sortFields]
             /\ before' = heap[1]
             /\ heap' = r.heap
             /\ out' = r.ptr

CallApplySort ==
    /\ ApplyParsedSort \/ ApplyDirectSort
    /\ pc' = "ApplySort"
    /\ UNCHANGED <<envVars, group, leaf, opVars, ret, orchVars>>

NextSort ==
    \/ CallerWhere
    \/ CallParseSort
    \/ CallParseSortParams
    \/ CallApplySort

SpecSort == Init /\ [][NextSort]_vars

(***************************************************************************)
(* The filter-parameter helpers called on their own, and what they return  *)
(* read back with ParseFilters.                                            *)
(***************************************************************************)
s_John == <<"J","o","h","n">>

s_active == <<"a","c","t","i","v","e">>

s_pending == <<"p","e","n","d","i","n","g">>

ParamFields == {"", "age", "name"}

ParamOperators ==
    {s_eq, s_gt, s_like, s_in, ToUpper(s_gt), s_between, s_foo, <<>>}

\* the values of TestParseFilterParam, a decoded number, nil and a func
ParamValues ==
    {GoInt(30), Str(s_John), GoStrings(<<s_active, s_pending>>), Num(30), Null, GoFunc}

ParamLogics == {s_and, s_or, <<>>, s_foo}

CallParseFilterParam ==
    /\ pc = "start"
    /\ pc' = "ParseFilterParam"
    /\ \E field \in ParamFields, op \in ParamOperators, value \in ParamValues,
          logic \in ParamLogics :
          /\ args' = [field |-> field, op |-> op, value |-> value, logic |-> logic]
          /\ ret' = ParseFilterParam(field, op, value, logic)
    /\ UNCHANGED <<envVars, heap, filterVars, opVars, orchVars>>

CallParseFilterParams ==
    /\ pc = "start"
    /\ pc' = "ParseFilterParams"
    /\ \E field \in ParamFields, op \in ParamOperators, value \in ParamValues,
          logic \in ParamLogics :
          /\ args' = [field |-> field, op |-> op, value |-> value, logic |-> logic]
          /\ ret' = ParseFilterParams(field, op, value, logic)
    /\ UNCHANGED <<envVars, heap, filterVars, opVars, orchVars>>

\* the []Filter lists handed to ParseMultipleFilterParams
MultiFilters ==
    {Filter(f, op, v) : f \in {"", "age"}, op \in {s_gt, s_like, s_foo},
                        v \in {GoInt(30), Str(s_John)}}

MultiFilterLists ==
    {<<>>} \cup {<<a>> : a \in MultiFilters}
           \cup {<<a, b>> : a, b \in MultiFilters}

MultiLogics == {s_and, s_or, ToUpper(s_or), <<"A","n","d">>, <<>>, s_foo}

CallParseMultipleFilterParams ==
    /\ pc = "start"
    /\ pc' = "ParseMultipleFilterParams"
    /\ \E filters \in MultiFilterLists, logic \in MultiLogics :
          /\ args' = [filters |-> filters, logic |-> logic]
          /\ ret' = ParseMultipleFilterParams(filters, logic)
    /\ UNCHANGED <<envVars, heap, filterVars, opVars, orchVars>>

\* groups a caller builds and serialises itself
TripLeaves ==
    {Filter("age", s_gt, GoInt(30)), Filter("age", s_gt, Num(30)),
     Filter("name", s_like, Str(s_John)),
     Filter("status", s_in, GoStrings(<<s_active, s_pending>>))}

TripSubGroups ==
    {FilterGroup(l, fs, <<>>) :
        l \in {s_and, s_or, <<>>},
        fs \in {<<>>} \cup {<<a>> : a \in TripLeaves}}

TripGroups ==
    {FilterGroup(l, fs, gs) :
        l \in {s_and, s_or},
        fs \in {<<>>} \cup {<<a>> : a \in TripLeaves}
                      \cup {<<a, b>> : a, b \in TripLeaves},
        gs \in {<<>>} \cup {<<g>> : g \in TripSubGroups}}

\* json.Marshal(g) by the caller
CallMarshal ==
    /\ pc = "start"
    /\ pc' = "Marshal"
    /\ \E g \in TripGroups :
          /\ args' = [g |-> g]
          /\ ret' = Marshal(g)
    /\ UNCHANGED <<envVars, heap, filterVars, opVars, orchVars>>

\* filter.ParseFilters on the string just returned
CallParseFiltersBack ==
    /\ pc \in {"ParseFilterParams", "ParseMultipleFilterParams", "Marshal"}
    /\ ret.err = NoErr
    /\ pc' = "ParseFilters"
    /\ \E r \in {ParseFilters(ret.json.doc)} :
          /\ group' = r.group
          /\ err' = r.err
    /\ UNCHANGED <<envVars, heap, before, out, leaf, opVars, fnVars, ql, params,
                   mainQuery, countQuery, stages>>

NextParam ==
    \/ CallParseFilterParam
    \/ CallParseFilterParams
    \/ CallParseMultipleFilterParams
    \/ CallMarshal
    \/ CallParseFiltersBack

SpecParam == Init /\ [][NextParam]_vars

(***************************************************************************)
(* bunql.ExecuteWithCount.  The database is the caller's: what it answers  *)
(* to countQuery.Count(ctx) and to query.Scan(ctx, &results) is an input,  *)
(* and db is the list of the statements it was asked to execute.           *)
(***************************************************************************)
Wrap(msg, cause) == [kind |-> msg, arg |-> cause]

NilResults == [nil |-> TRUE, rows |-> <<>>]

Results(rs) == [nil |-> FALSE, rows |-> rs]

Statement(op, q) == [op |-> op, q |-> q]

\* ExecuteWithCount going on to the main query whatever the count returned
ExecuteWithCount_IgnoreCountErr(query, cQuery, onCount, onScan) ==
    IF onScan.err # NoErr
    THEN [results |-> NilResults, count |-> 0,
          err |-> Wrap("failed to execute main query", onScan.err),
          db |-> <<Statement("Count", cQuery), Statement("Scan", query)>>]
    ELSE [results |-> onScan.results, count |-> onCount.count, err |-> NoErr,
          db |-> <<Statement("Count", cQuery), Statement("Scan", query)>>]

\* ExecuteWithCount: (results, count, err), and the statements executed
ExecuteWithCount(query, cQuery, onCount, onScan) ==
    IF onCount.err # NoErr
    THEN [results |-> NilResults, count |-> 0,
          err |-> Wrap("failed to execute count query", onCount.err),
          db |-> <<Statement("Count", cQuery)>>]
    ELSE IF onScan.err # NoErr
    THEN [results |-> NilResults, count |-> 0,
          err |-> Wrap("failed to execute main query", onScan.err),
          db |-> <<Statement("Count", cQuery), Statement("Scan", query)>>]
    ELSE [results |-> onScan.results, count |-> onCount.count, err |-> NoErr,
          db |-> <<Statement("Count", cQuery), Statement("Scan", query)>>]

DbErrors == {Err("driver", "bad connection"), Err("context", "deadline exceeded")}

\* what Count can answer
CountOutcomes ==
    {[count |-> 0, err |-> e] : e \in DbErrors}
    \cup {[count |-> n, err |-> NoErr] : n \in 0 .. 2}

\* what Scan can answer
ScanOutcomes ==
    {[results |-> NilResults, err |-> e] : e \in DbErrors}
    \cup {[results |-> r, err |-> NoErr] :
            r \in {NilResults, Results(<<"row1">>), Results(<<"row1", "row2">>)}}

\* ExecuteWithCount on the two queries ApplyWithCount returned
CallExecuteWithCount ==
    /\ pc = "ApplyWithCount"
    /\ pc' = "ExecuteWithCount"
    /\ \E onCount \in CountOutcomes, onScan \in ScanOutcomes :
          \E r \in {ExecuteWithCount(mainQuery, countQuery, onCount, onScan)} :
             /\ args' = [query |-> mainQuery, countQuery |-> countQuery,
                         onCount |-> onCount, onScan |-> onScan]
             /\ ret' = [results |-> r.results, count |-> r.count, err |-> r.err]
             /\ db' = db \o r.db
    /\ UNCHANGED <<heap, filterVars, opVars, orchVars, instances, callers, visited>>

NextExec ==
    \/ CallNew
    \/ CallWithFilters
    \/ CallWithSort
    \/ CallWithPagination
    \/ CallApplyWithCount
    \/ CallExecuteWithCount

SpecExec == Init /\ [][NextExec]_vars

(***************************************************************************)
(* Two callers at once.  Caller i owns the BunQL instances[i] and the base *)
(* query heap[i]; it makes one call, which runs stage by stage, and the    *)
(* stages of the two calls interleave.                                     *)
(***************************************************************************)
CallerIds == {1, 2}

ConcFilters ==
    {FilterGroup(s_and, <<>>, <<>>),
     FilterGroup(s_and, <<Filter("age", s_gt, Num(21))>>, <<>>),
     FilterGroup(s_or, <<Filter("first_name", s_eq, Str(n_User1))>>,
                 <<FilterGroup(s_and, <<Filter("age", ToUpper(s_lt), Num(55))>>, <<>>)>>)}

ConcSorts == {<<>>, <<SortField("age", s_desc)>>}

ConcPaginations == {NilPagination, Pagination(2, 2)}

ConcInstances ==
    {WithPagination(WithSort(WithFilters(New, f), sort), p) :
        f \in ConcFilters, sort \in ConcSorts, p \in ConcPaginations}

ConcCalls == {"Apply", "ApplyWithCount", "GetPaginationMetadata"}

ConcBaseURI == <<"/","u">>

ConcTotalCounts == {0, 5}

FirstPosition(call) == IF call = "GetPaginationMetadata" THEN "meta" ELSE "filter"

NoMetadata == PaginationMetadataOutput(0, NilString, NilString, 0)

\* both callers build their instance and base query and start their call
StartCallers ==
    /\ pc = "start"
    /\ pc' = "running"
    /\ \E a \in ConcInstances, b \in ConcInstances, ca \in ConcCalls, cb \in ConcCalls :
          /\ instances' = <<a, b>>
          /\ callers' = [i \in CallerIds |->
                           [call |-> IF i = 1 THEN ca ELSE cb,
                            at |-> FirstPosition(IF i = 1 THEN ca ELSE cb),
                            base |-> i, query |-> i,
                            mainQuery |-> 0, countQuery |-> 0,
                            totalCount |-> 0, meta |-> NoMetadata]]
    /\ heap' = <<NewSelectQuery, NewSelectQuery>>
    /\ UNCHANGED <<filterVars, opVars, fnVars, orchVars, db, visited>>

\* the receiver q of caller i's method call: a variant where one
\* package-level instance stands behind every receiver
Receiver_Shared(i) == instances[1]

\* the receiver q of caller i's method call
Receiver(i) == instances[i]

At(i, position) == pc = "running" /\ callers[i].at = position

ConcFrame == UNCHANGED <<pc, instances, filterVars, opVars, fnVars, orchVars, db, visited>>

\* Apply: if len(q.Filters.Filters) > 0 || ... { query = filter.ApplyFilterGroup(...) }
FilterStage ==
    \E i \in CallerIds :
       /\ At(i, "filter")
       /\ \E r \in {IF HasFilters(Receiver(i))
                    THEN ApplyFilterGroup(QRef(heap, callers[i].query),
                                          Receiver(i).Filters)
                    ELSE QRef(heap, callers[i].query)} :
             /\ heap' = r.heap
             /\ callers' = [callers EXCEPT ![i].query = r.ptr, ![i].at = "sort"]
       /\ ConcFrame

\* Apply: if len(q.Sort) > 0 { query = sorting.ApplySort(query, q.Sort) }
SortStage ==
    \E i \in CallerIds :
       /\ At(i, "sort")
       /\ \E r \in {IF Len(Receiver(i).Sort) > 0
                    THEN ApplySort(QRef(heap, callers[i].query), Receiver(i).Sort)
                    ELSE QRef(heap, callers[i].query)} :
             /\ heap' = r.heap
             /\ callers' = [callers EXCEPT ![i].query = r.ptr, ![i].at = "page"]
       /\ ConcFrame

\* Apply: if q.Pagination != nil { ... }; return query
PageStage ==
    \E i \in CallerIds :
       /\ At(i, "page")
       /\ \E r \in {IF ~Receiver(i).Pagination.nil
                    THEN ApplyPagination(QRef(heap, callers[i].query),
                                         Receiver(i).Pagination)
                    ELSE QRef(heap, callers[i].query)} :
             /\ heap' = r.heap
             /\ callers' = [callers EXCEPT
                              ![i].query = r.ptr,
                              ![i].mainQuery = r.ptr,
                              ![i].at = IF callers[i].call = "Apply"
                                        THEN "done" ELSE "count"]
       /\ ConcFrame

\* ApplyWithCount: countQuery := query, filtered; return mainQuery, countQuery
CountStage ==
    \E i \in CallerIds :
       /\ At(i, "count")
       /\ \E r \in {IF HasFilters(Receiver(i))
                    THEN ApplyFilterGroup(QRef(heap, callers[i].base),
                                          Receiver(i).Filters)
                    ELSE QRef(heap, callers[i].base)} :
             /\ heap' = r.heap
             /\ callers' = [callers EXCEPT ![i].countQuery = r.ptr, ![i].at = "done"]
       /\ ConcFrame

\* GetPaginationMetadata(q.Pagination, totalCount, baseURI)
MetadataCall ==
    \E i \in CallerIds :
       /\ At(i, "meta")
       /\ \E totalCount \in ConcTotalCounts,
             prevOrder \in KeyOrders({k_page, k_pageSize}),
             nextOrder \in KeyOrders({k_page, k_pageSize}) :
             callers' = [callers EXCEPT
                           ![i].totalCount = totalCount,
                           ![i].meta = GetPaginationMetadata(
                                           Receiver(i).Pagination, totalCount,
                                           ConcBaseURI, prevOrder, nextOrder),
                           ![i].at = "done"]
       /\ UNCHANGED heap
       /\ ConcFrame

NextConc ==
    \/ StartCallers
    \/ FilterStage
    \/ SortStage
    \/ PageStage
    \/ CountStage
    \/ MetadataCall

SpecConc == Init /\ [][NextConc]_vars

(***************************************************************************)
(* The strict path: validateFilter on a leaf that was compiled, and        *)
(* validateFilterGroup on a tree.                                          *)
(***************************************************************************)
\* validateFilter(leaf) on the leaf ApplyFilter just compiled, with what the
\* registry answers for its operator
CallValidateFilter ==
    /\ pc = "ApplyFilter"
    /\ pc' = "validateFilter"
    /\ err' = validateFilter(leaf)
    /\ opIn' = leaf.Operator
    /\ opKind' = GetOperator(leaf.Operator)
    /\ opValid' = IsValidOperator(leaf.Operator)
    /\ UNCHANGED <<heap, filterVars, fnVars, ql, params, mainQuery, countQuery,
                   stages, envVars>>

StrictLeaves ==
    {Filter(f, op, Num(21)) : f \in {"age", ""}, op \in {s_gt, s_foo}}

StrictLogics == {s_and, ToUpper(s_or), <<>>, s_xor}

StrictLeafLists ==
    {<<>>} \cup {<<a>> : a \in StrictLeaves}
           \cup {<<Filter("age", s_gt, Num(21)), a>> : a \in StrictLeaves}

\* trees three groups deep
StrictTrees3 == {FilterGroup(l, fs, <<>>) : l \in StrictLogics, fs \in StrictLeafLists}

StrictTrees2 ==
    {FilterGroup(l, fs, gs) :
        l \in {s_and, s_xor}, fs \in {<<>>} \cup {<<a>> : a \in StrictLeaves},
        gs \in {<<>>} \cup {<<g>> : g \in StrictTrees3}}

StrictTrees ==
    StrictTrees3
    \cup {FilterGroup(l, fs, gs) :
            l \in {s_or, <<>>}, fs \in {<<>>, <<Filter("age", s_gt, Num(21))>>},
            gs \in {<<g>> : g \in StrictTrees2}
                   \cup {<<FilterGroup(s_and, <<>>, <<>>), g>> : g \in StrictTrees3}}

CallValidateFilterGroup ==
    /\ pc = "start"
    /\ pc' = "validateFilterGroup"
    /\ \E g \in StrictTrees :
          /\ group' = g
          /\ err' = validateFilterGroup(g)
    /\ UNCHANGED <<heap, before, out, leaf, opVars, fnVars, ql, params, mainQuery,
                   countQuery, stages, envVars>>

NextStrict ==
    \/ CallerWhere
    \/ CallApplyFilter
    \/ CallValidateFilter
    \/ CallValidateFilterGroup

SpecStrict == Init /\ [][NextStrict]_vars

(***************************************************************************)
(* The orchestrator built with allowlists, configured and applied.         *)
(***************************************************************************)
AllowFilterLists == {<<"age">>, <<"age", "email">>}

AllowSortLists == {<<>>, <<"age">>}

AllowFilterParams ==
    {Param(FALSE, JsonOf(FilterGroup(s_and, fs, <<>>))) :
        fs \in {<<Filter("age", s_gt, Num(21))>>,
                <<Filter("age", s_gt, Num(21)), Filter("email", s_isnull, Null)>>}}

AllowSortParams ==
    {Param(FALSE, JSortArr(<<>>)),
     Param(FALSE, JSortArr(<<JSortItem("age", s_asc), JSortItem("email", <<>>)>>))}

CallNewWithAllowedFields ==
    /\ pc = "start"
    /\ pc' = "NewWithAllowedFields"
    /\ \E aff \in AllowFilterLists, asf \in AllowSortLists :
          ql' = NewWithAllowedFields(aff, asf)
    /\ UNCHANGED <<heap, filterVars, opVars, fnVars, err, params, mainQuery,
                   countQuery, stages, envVars>>

\* ParseFromParamsWithAllowedFields; the caller goes on only with err == nil
CallParseWithAllowlist ==
    /\ pc = "start"
    /\ \E fp \in AllowFilterParams, sp \in AllowSortParams,
          aff \in AllowFilterLists, asf \in AllowSortLists :
          /\ DoParse(fp, sp, 1, 2, aff, asf)
          /\ pc' = IF err' = NoErr THEN "ParseFromParamsWithAllowedFields"
                   ELSE "failed"

\* what a caller hands to WithFilters, WithSort and WithPagination afterwards
AllowFilters ==
    {FilterGroup(s_and, <<Filter("age", s_gt, Num(21))>>, <<>>),
     FilterGroup(s_and, <<Filter("email", s_isnull, Null)>>, <<>>),
     FilterGroup(s_or, <<Filter("age", s_gt, Num(55))>>,
                 <<FilterGroup(s_and, <<Filter("first_name", s_eq, Str(n_User1))>>, <<>>)>>)}

AllowSorts == {<<SortField("age", s_desc)>>, <<SortField("first_name", s_asc)>>}

AllowPaginations == {NilPagination, Pagination(2, 2)}

AllowWithFilters ==
    /\ pc \in Configuring
    /\ pc' = "WithFilters"
    /\ \E g \in AllowFilters : ql' = WithFilters(ql, g)
    /\ UNCHANGED <<heap, filterVars, opVars, fnVars, err, params, mainQuery,
                   countQuery, stages, envVars>>

AllowWithSort ==
    /\ pc \in Configuring
    /\ pc' = "WithSort"
    /\ \E sort \in AllowSorts : ql' = WithSort(ql, sort)
    /\ UNCHANGED <<heap, filterVars, opVars, fnVars, err, params, mainQuery,
                   countQuery, stages, envVars>>

AllowWithPagination ==
    /\ pc \in Configuring
    /\ pc' = "WithPagination"
    /\ \E p \in AllowPaginations : ql' = WithPagination(ql, p)
    /\ UNCHANGED <<heap, filterVars, opVars, fnVars, err, params, mainQuery,
                   countQuery, stages, envVars>>

NextAllow ==
    \/ CallNewWithAllowedFields
    \/ CallParseWithAllowlist
    \/ AllowWithFilters
    \/ AllowWithSort
    \/ AllowWithPagination
    \/ CallApply

SpecAllow == Init /\ [][NextAllow]_vars

(***************************************************************************)
(* What a filter tree is documented to mean (README, Filter JSON Format    *)
(* and Supported Operators).                                               *)
(***************************************************************************)
DocumentedKind ==
    operatorMap @@ (s_between :> "BETWEEN")

IsCanonicalLogic(l) == ToLower(l) \in {s_and, s_or}

\* the predicate a leaf with a documented operator stands for
LeafPredicate(f) ==
    LET kind == DocumentedKind[ToLower(f.Operator)]
    IN  IF kind = "BETWEEN"
        THEN Pred(kind, FALSE, f.Field, <<f.Value.a[1], f.Value.a[2]>>)
        ELSE IF kind \in {"IS NULL", "IS NOT NULL"}
        THEN Pred(kind, FALSE, f.Field, <<>>)
        ELSE Pred(kind, FALSE, f.Field, <<f.Value>>)

LeafHolds(f, row) == EvalPred(LeafPredicate(f), row)

RECURSIVE LeafCount(_)
LeafCount(g) ==
    LET RECURSIVE Sum(_)
        Sum(gs) == IF gs = <<>> THEN 0 ELSE LeafCount(Head(gs)) + Sum(Tail(gs))
    IN  Len(g.Filters) + Sum(g.Groups)

RECURSIVE Depth(_)
Depth(g) ==
    IF g.Groups = <<>> THEN 0
    ELSE 1 + (CHOOSE d \in {Depth(g.Groups[i]) : i \in DOMAIN g.Groups} :
                 \A i \in DOMAIN g.Groups : Depth(g.Groups[i]) <= d)

\* leaves and sub-groups combined under the group's logic, OR for "or" and AND
\* for everything else; a group with no leaf anywhere below it adds nothing
RECURSIVE GroupHolds(_, _)
GroupHolds(g, row) ==
    LET kids == {LeafHolds(g.Filters[i], row) : i \in DOMAIN g.Filters}
                \cup {GroupHolds(g.Groups[i], row) :
                         i \in {j \in DOMAIN g.Groups : LeafCount(g.Groups[j]) > 0}}
    IN  IF ToLower(g.Logic) = s_or THEN TRUE \in kids ELSE FALSE \notin kids

RowsOf(g) == IF LeafCount(g) = 0 THEN Rows ELSE {row \in Rows : GroupHolds(g, row)}

LastWhere(q) == q.where[Len(q.where)].Query

\* the logic strings of a tree's groups
RECURSIVE LogicsOf(_)
LogicsOf(g) ==
    {g.Logic} \cup UNION {LogicsOf(g.Groups[i]) : i \in DOMAIN g.Groups}

(***************************************************************************)
(* Claims.                                                                 *)
(***************************************************************************)

\* C1: ApplyFilterGroup compiles a tree of any depth so that every leaf at
\* every depth contributes one predicate and every sub-group is combined
\* under its own logic inside its parent: on a base query without conditions
\* the compiled query has one predicate per leaf and selects exactly the rows
\* the tree stands for.
C1_EveryLeafAndGroupCompiled ==
    (/\ pc = "ApplyFilterGroup"
     /\ before.where = <<>>
     /\ \A l \in LogicsOf(group) : l \in {s_and, s_or})
    => /\ Len(WherePreds(heap[out].where)) = LeafCount(group)
       /\ Selected(heap[out]) = RowsOf(group)

\* C2: a leaf {field, "between", [lo, hi]} compiles to the inclusive range
\* predicate field BETWEEN lo AND hi, selecting the rows with lo <= field <= hi.
C2_BetweenIsRange ==
    (/\ pc = "ApplyFilter"
     /\ before.where = <<>>
     /\ ToLower(leaf.Operator) = s_between
     /\ leaf.Value.t = "arr" /\ Len(leaf.Value.a) = 2
     /\ leaf.Value.a[1].t = "num" /\ leaf.Value.a[2].t = "num")
    => /\ LastWhere(heap[out]) =
            Pred("BETWEEN", FALSE, leaf.Field, <<leaf.Value.a[1], leaf.Value.a[2]>>)
       /\ ColumnType(leaf.Field) = "num" =>
            Selected(heap[out]) =
              {row \in Rows : /\ leaf.Value.a[1].n <= row[leaf.Field].n
                              /\ row[leaf.Field].n <= leaf.Value.a[2].n}

\* C3: for each of the twelve documented mnemonics, in any letter case,
\* IsValidOperator returns true and GetOperator returns the mnemonic's own
\* predicate kind.
C3_DocumentedOperatorsResolve ==
    ToLower(opIn) \in DocumentedOperators
    => /\ pc \in {"GetOperator", "both"} => opKind = DocumentedKind[ToLower(opIn)]
       /\ pc \in {"IsValidOperator", "both"} => opValid

\* C4: a leaf with operator "notin" (any letter case) compiles to the
\* predicate field NOT IN (value); with a sequence value of the column's type
\* on a base query without conditions the query keeps exactly the rows whose
\* field value is no member of the sequence.
C4_NotInExcludesMembers ==
    (pc = "ApplyFilter" /\ ToLower(leaf.Operator) = s_notin)
    => /\ Len(heap[out].where) = Len(before.where) + 1
       /\ LastWhere(heap[out]) = Pred("NOT IN", FALSE, leaf.Field, <<leaf.Value>>)
       /\ (/\ before.where = <<>>
           /\ PredOK(LastWhere(heap[out])))
          => Selected(heap[out]) =
               {row \in Rows : \A i \in DOMAIN leaf.Value.a :
                                  leaf.Value.a[i] # row[leaf.Field]}

C4_Witness ==
    /\ pc = "ApplyFilter"
    /\ leaf = Filter("id", s_notin, Arr(<<Num(1), Num(2)>>))
    /\ before.where = <<>>
    /\ {row.id.n : row \in Selected(heap[out])} = {3, 4, 5, 6}

\* C5: a group whose logic is absent or is no spelling of "and"/"or" is
\* compiled with AND as its combinator, at the top level and in a sub-group,
\* whether it was parsed or handed over directly: the query keeps the
\* caller's rows that satisfy every leaf.
C5_UnknownLogicIsAnd ==
    (/\ pc = "ApplyFilterGroup"
     /\ LeafCount(group) > 0
     /\ \A l \in LogicsOf(group) : ~IsCanonicalLogic(l))
    => Selected(heap[out]) = Selected(before) \cap RowsOf(group)

\* C6: the count query returned by ApplyWithCount carries the filter predicate
\* and nothing else: for every sort list and pagination configured it has no
\* ORDER BY term, no LIMIT and no OFFSET,
\* while the main query returned with it carries filter, sort and paging.
C6_CountQueryCarriesFilterOnly ==
    pc = "ApplyWithCount"
    => /\ heap[countQuery].order = <<>>
       /\ ~heap[countQuery].limit.set
       /\ ~heap[countQuery].offset.set
       /\ Len(heap[mainQuery].order) = Len(ql.Sort)
       /\ heap[mainQuery].limit.set =
            (~ql.Pagination.nil /\ ql.Pagination.PageSize > 0)

ParseCalls == {"ParseFromParamsWithAllowedFields", "ParseFromParams"}

\* the leaf fields of a filter document: the direct leaves of a group, then
\* its sub-groups depth-first
RECURSIVE DocFields(_)
DocFields(doc) ==
    LET RECURSIVE Sub(_)
        Sub(gs) == IF gs = <<>> THEN <<>> ELSE DocFields(Head(gs)) \o Sub(Tail(gs))
    IN  [i \in DOMAIN doc.filters |-> doc.filters[i].Field] \o Sub(doc.groups)

Outside(fields, allowed) ==
    SelectSeq(fields, LAMBDA f : \A i \in DOMAIN allowed : allowed[i] # f)

\* the leaf fields of the filter parameter that the allowed list leaves out
OffendingFilterFields ==
    IF params.filterParam.empty \/ params.filterParam.doc.k = "bad" THEN <<>>
    ELSE Outside(DocFields(params.filterParam.doc), params.allowedFilterFields)

\* C7: ParseFromParamsWithAllowedFields fails with "filter field '<f>' is not
\* allowed" exactly when the allowed-filter list is non-empty and some leaf at
\* any depth has a field outside it; <f> is the first such field in the order
\* direct leaves of a group, then its sub-groups depth-first; an empty list
\* rejects nothing.
C7_FilterAllowlistRejection ==
    pc \in ParseCalls
    => /\ (err.kind = "filter field not allowed")
            <=> (/\ params.allowedFilterFields # <<>>
                 /\ OffendingFilterFields # <<>>)
       /\ err.kind = "filter field not allowed"
            => err.arg = Head(OffendingFilterFields)
       /\ params.allowedFilterFields = <<>>
            => err.kind # "filter field not allowed"

\* a rejected field two levels below the root, behind an allowed direct leaf
C7_Witness ==
    /\ pc = "ParseFromParamsWithAllowedFields"
    /\ params.allowedFilterFields = <<"age">>
    /\ params.filterParam =
         Param(FALSE,
               JsonOf(FilterGroup(s_and, <<Filter("age", s_gt, Num(21))>>,
                   <<FilterGroup(s_and, <<>>,
                       <<FilterGroup(s_and, <<Filter("email", s_isnull, Null)>>,
                                     <<>>)>>)>>)))
    /\ err = Err("filter field not allowed", "email")
    /\ ql.nil

\* the sort fields of the sort parameter that the allowed list leaves out
OffendingSortFields ==
    IF params.sortParam.empty \/ params.sortParam.doc.k = "bad" THEN <<>>
    ELSE Outside([i \in DOMAIN params.sortParam.doc.items |->
                     params.sortParam.doc.items[i].field],
                 params.allowedSortFields)

\* the steps of the helper in their documented order, each with whether it
\* fails on the parameters given
ParseSteps ==
    << [kind |-> "json", arg |-> "filter",
        fails |-> ~params.filterParam.empty /\ params.filterParam.doc.k = "bad"],
       [kind |-> "filter field not allowed", arg |-> "",
        fails |-> params.allowedFilterFields # <<>> /\ OffendingFilterFields # <<>>],
       [kind |-> "json", arg |-> "sort",
        fails |-> ~params.sortParam.empty /\ params.sortParam.doc.k = "bad"],
       [kind |-> "sort field not allowed", arg |-> "",
        fails |-> params.allowedSortFields # <<>> /\ OffendingSortFields # <<>>] >>

FailingSteps == {i \in DOMAIN ParseSteps : ParseSteps[i].fails}

FirstFailingStep == CHOOSE i \in FailingSteps : \A j \in FailingSteps : i <= j

\* C8: ParseFromParamsWithAllowedFields returns (nil, error) whenever a step
\* fails; the steps run in the order parse filter JSON, check filter
\* allowlist, parse sort JSON, check sort allowlist, and the error is that of
\* the first failing step; with no failing step the instance returned holds
\* the filters, sort and pagination given.
C8_FirstFailingStepDecides ==
    pc \in ParseCalls
    => /\ ql.nil <=> err # NoErr
       /\ err # NoErr <=> FailingSteps # {}
       /\ FailingSteps # {}
            => /\ err.kind = ParseSteps[FirstFailingStep].kind
               /\ ParseSteps[FirstFailingStep].kind = "json"
                    => err.arg = ParseSteps[FirstFailingStep].arg
               /\ ql = NilBunQL
       /\ FailingSteps = {}
            => /\ ~params.filterParam.empty
                    => DocFields(JsonOf(ql.Filters)) = DocFields(params.filterParam.doc)
               /\ params.filterParam.empty => ql.Filters = New.Filters
               /\ Len(ql.Sort) = IF params.sortParam.empty THEN 0
                                 ELSE Len(params.sortParam.doc.items)
               /\ ql.Pagination.nil <=> (params.page <= 0 /\ params.pageSize <= 0)
               /\ ~ql.Pagination.nil
                    => /\ ql.Pagination.Page = params.page
                       /\ ql.Pagination.PageSize = params.pageSize

\* filter JSON and sort JSON both malformed: the filter's error is returned
C8_Witness ==
    /\ pc = "ParseFromParamsWithAllowedFields"
    /\ params.filterParam = Param(FALSE, BadJSON)
    /\ params.sortParam = Param(FALSE, BadSortJSON)
    /\ err = Err("json", "filter")
    /\ ql = NilBunQL

StageOf(method) ==
    IF method \in {"Where", "WhereGroup"} THEN 1
    ELSE IF method = "OrderExpr" THEN 2 ELSE 3

\* C9: Apply performs its stages in the order filter, sort, pagination, and a
\* stage only when it is configured: filter iff the tree has a leaf or a
\* sub-group, sort iff the sort list is non-empty, paging iff Pagination is
\* non-nil; with the defaults of New() the query comes back with nothing added.
C9_StagesInOrder ==
    pc = "Apply"
    => /\ stages = SelectSeq(<<"filter", "sort", "page">>,
                     LAMBDA st :
                        \/ st = "filter" /\ (\/ ql.Filters.Filters # <<>>
                                             \/ ql.Filters.Groups # <<>>)
                        \/ st = "sort" /\ ql.Sort # <<>>
                        \/ st = "page" /\ ~ql.Pagination.nil)
       /\ mainQuery = 1
       /\ LET calls == heap[mainQuery].calls
          IN  /\ \A i, j \in DOMAIN calls :
                    i < j => StageOf(calls[i]) <= StageOf(calls[j])
              /\ (\E i \in DOMAIN calls : StageOf(calls[i]) = 1)
                    <=> (ql.Filters.Filters # <<>> \/ ql.Filters.Groups # <<>>)
              /\ Len(SelectSeq(calls, LAMBDA m : m = "OrderExpr")) = Len(ql.Sort)
              /\ (\E i \in DOMAIN calls : StageOf(calls[i]) = 3)
                    => ~ql.Pagination.nil
       /\ ql = New => heap[mainQuery] = before

C9_Witness ==
    /\ pc = "Apply"
    /\ stages = <<"filter", "sort", "page">>
    /\ \E i, j, k \in DOMAIN heap[mainQuery].calls :
          /\ i < j /\ j < k
          /\ heap[mainQuery].calls[i] = "Where"
          /\ heap[mainQuery].calls[j] = "OrderExpr"
          /\ heap[mainQuery].calls[k] = "Offset"


\* C10: ApplyFilterGroup on a group with no leaves and no sub-groups returns
\* the input query unchanged, whatever the group's logic is.
C10_EmptyGroupIsIdentity ==
    (pc = "ApplyFilterGroup" /\ group.Filters = <<>> /\ group.Groups = <<>>)
    => out = 1 /\ heap[out] = before

C10_Witness ==
    /\ pc = "ApplyFilterGroup"
    /\ group = FilterGroup(s_xor, <<>>, <<>>)
    /\ before.where # <<>>
    /\ heap[out] = before

\* C11: ApplyPagination adds LIMIT PageSize iff PageSize > 0 and OFFSET
\* (Page-1)*PageSize iff PageSize > 0 and Page > 0; with PageSize <= 0 it
\* adds neither whatever Page is, with PageSize > 0 and Page <= 0 the limit
\* and no offset; nothing else of the query changes.
C11_LimitAndOffset ==
    pc = "ApplyPagination"
    => LET p == args.p
           q == heap[out]
       IN  /\ out = 1
           /\ q.limit.set <=> p.PageSize > 0
           /\ q.limit.set => q.limit.n = p.PageSize
           /\ q.offset.set <=> (p.PageSize > 0 /\ p.Page > 0)
           /\ q.offset.set => q.offset.n = (p.Page - 1) * p.PageSize
           /\ p.PageSize <= 0 => q = before
           /\ q.where = before.where /\ q.order = before.order
           /\ q.calls = before.calls
                          \o (IF p.PageSize > 0 THEN <<"Limit">> ELSE <<>>)
                          \o (IF p.PageSize > 0 /\ p.Page > 0
                              THEN <<"Offset">> ELSE <<>>)

\* page 3 of size 2 skips four rows; page 0 of size 2 skips none
C11_Witness ==
    /\ pc = "ApplyPagination"
    /\ args.p = Pagination(3, 2)
    /\ heap[out].limit = [set |-> TRUE, n |-> 2]
    /\ heap[out].offset = [set |-> TRUE, n |-> 4]

\* the least integer t with t * d >= n, for d > 0
Ceil(n, d) == CHOOSE t \in -200 .. 200 : t * d >= n /\ (t - 1) * d < n

PagingEnabled == ~args.p.nil /\ args.p.PageSize > 0

\* C12: GetPaginationMetadata returns Total = 1 when the pagination is nil or
\* PageSize <= 0, and otherwise Total = ceil(totalCount / PageSize); TotalItem
\* always equals the totalCount given.
C12_TotalPages ==
    pc = "GetPaginationMetadata"
    => /\ ret.TotalItem = args.totalCount
       /\ ~PagingEnabled => ret.Total = 1
       /\ PagingEnabled => ret.Total = Ceil(args.totalCount, args.p.PageSize)

\* five items in pages of two make three pages
C12_Witness ==
    /\ pc = "GetPaginationMetadata"
    /\ args.p = Pagination(1, 2)
    /\ args.totalCount = 5
    /\ ret.Total = 3
    /\ ret.TotalItem = 5

\* the key/value pairs of a query string, escapes decoded
RECURSIVE PairsOf(_)
PairsOf(query) ==
    IF query = <<>> THEN <<>>
    ELSE LET c    == Cut(query, "&")
             pair == Cut(c.before, "=")
         IN  (IF c.before = <<>> THEN <<>>
              ELSE <<[k |-> QueryUnescape(pair.before).s,
                      v |-> QueryUnescape(pair.after).s]>>)
             \o PairsOf(c.after)

\* the pairs of a link's query string
LinkPairs(link) == PairsOf(Cut(link.s, "?").after)

\* the values a link gives for key k
LinkValues(link, k) ==
    LET ps == SelectSeq(LinkPairs(link), LAMBDA e : e.k = k)
    IN  [i \in DOMAIN ps |-> ps[i].v]

ClampedPage == IF args.p.Page > 1 THEN args.p.Page ELSE 1

\* C13: with pagination enabled and currentPage = max(Page, 1), Prev is
\* non-nil iff currentPage > 1 and then carries page = currentPage - 1; Next
\* is non-nil iff currentPage < Total and then carries page = currentPage + 1;
\* with pagination nil or PageSize <= 0 both links are nil.
C13_PrevAndNext ==
    pc = "GetPaginationMetadata"
    => /\ ~PagingEnabled => ret.Prev.nil /\ ret.Next.nil
       /\ PagingEnabled
            => /\ ~ret.Prev.nil <=> ClampedPage > 1
               /\ ~ret.Prev.nil
                    => LinkValues(ret.Prev, k_page) = <<IntToStr(ClampedPage - 1)>>
               /\ ~ret.Next.nil
                    <=> ClampedPage < Ceil(args.totalCount, args.p.PageSize)
               /\ ~ret.Next.nil
                    => LinkValues(ret.Next, k_page) = <<IntToStr(ClampedPage + 1)>>

\* page 2 of 10: prev is page 1 and next is page 3
C13_Witness ==
    /\ pc = "GetPaginationMetadata"
    /\ args.p = Pagination(2, 10)
    /\ args.totalCount = 100
    /\ ret.Total = 10
    /\ LinkValues(ret.Prev, k_page) = <<<<"1">>>>
    /\ LinkValues(ret.Next, k_page) = <<<<"3">>>>

\* the base URI's original query string: what follows its first "?", up to a
\* fragment
OriginalQuery == Cut(Cut(args.baseURI, "#").before, "?").after

NotPaging(pairs) == {e \in pairs : e.k \notin {k_page, k_pageSize}}

PairSet(pairs) == {pairs[i] : i \in DOMAIN pairs}

\* a link as C14 describes it, for the page it leads to
LinkAsDocumented(link, targetPage) ==
    /\ Cut(link.s, "?").before = Cut(args.baseURI, "?").before
    /\ NotPaging(PairSet(LinkPairs(link))) = NotPaging(PairSet(PairsOf(OriginalQuery)))
    /\ LinkValues(link, k_page) = <<IntToStr(targetPage)>>
    /\ LinkValues(link, k_pageSize) = <<IntToStr(args.p.PageSize)>>

\* C14: every prev/next link is the base URI's text before its first "?"
\* followed by a query string that, read as a set of key/value pairs, holds
\* every parameter of the base URI's query string other than page and
\* pageSize, plus exactly one page parameter equal to the target page and
\* exactly one pageSize parameter equal to PageSize.
C14_LinksKeepParameters ==
    pc = "GetPaginationMetadata"
    => /\ ~ret.Prev.nil => LinkAsDocumented(ret.Prev, ClampedPage - 1)
       /\ ~ret.Next.nil => LinkAsDocumented(ret.Next, ClampedPage + 1)

\* the direction a "dir" text stands for: desc in any letter case, else asc
NormalDirection(d) == IF ToLower(d) = s_desc THEN s_desc ELSE s_asc

\* C15: ParseSort of a JSON array of sort entries returns one entry per
\* element, in the document's order and with duplicates kept, each with the
\* element's field and with direction "desc" when its dir is desc in any
\* letter case and "asc" otherwise (asc in any case, missing, or anything else).
C15_ParseSortNormalises ==
    (pc = "ParseSort" /\ args.doc.k = "arr")
    => /\ ret.err = NoErr
       /\ Len(ret.sort) = Len(args.doc.items)
       /\ \A i \in DOMAIN args.doc.items :
             /\ ret.sort[i].Field = args.doc.items[i].field
             /\ ret.sort[i].Direction = NormalDirection(args.doc.items[i].dir)

\* [{"field":"age","dir":"DESC"},{"field":"age"}] gives age desc, age asc
C15_Witness ==
    /\ pc = "ParseSort"
    /\ args.doc = JSortArr(<<JSortItem("age", ToUpper(s_desc)), JSortItem("age", <<>>)>>)
    /\ ret.sort = <<SortField("age", s_desc), SortField("age", s_asc)>>

\* a string as a JSON string literal
RECURSIVE JSONEscape(_)
JSONEscape(s) ==
    IF s = <<>> THEN <<>>
    ELSE (IF Head(s) \in {"\"", "\\"} THEN <<"\\", Head(s)>> ELSE <<Head(s)>>)
         \o JSONEscape(Tail(s))

JSONString(s) == <<"\"">> \o JSONEscape(s) \o <<"\"">>

\* the one-entry sort JSON for a field and a direction
SortJSON(field, dir) ==
    <<"[","{">> \o JSONString(<<"f","i","e","l","d">>) \o <<":"," ">>
      \o JSONString(field) \o <<","," ">> \o JSONString(<<"d","i","r">>)
      \o <<":"," ">> \o JSONString(dir) \o <<"}","]">>

\* C16: ParseSortParams(sortby, dir) returns the empty string when sortby is
\* empty, and otherwise the one-entry sort JSON for sortby whose direction is
\* desc when dir is "desc" in any letter case and asc for every other dir.
C16_ParseSortParams ==
    pc = "ParseSortParams"
    => ret = IF args.sortby = <<>> THEN <<>>
             ELSE SortJSON(args.sortby, NormalDirection(args.sortDirection))

\* C17: ApplySort adds one ORDER BY term per entry of the list, in list
\* order, each on the entry's field with direction ASC or DESC: DESC for a
\* desc entry, ASC for every other direction.
C17_OneTermPerEntry ==
    pc = "ApplySort"
    => LET order == heap[out].order
           n0    == Len(before.order)
       IN  /\ Len(order) = n0 + Len(args.sortFields)
           /\ \A i \in DOMAIN args.sortFields :
                 /\ order[n0 + i].field = args.sortFields[i].Field
                 /\ order[n0 + i].dir
                      = ToUpper(NormalDirection(args.sortFields[i].Direction))

FilterIsInvalid(f) == f.Field = "" \/ ToLower(f.Operator) \notin DOMAIN operatorMap

InvalidIndexes(filters) == {i \in DOMAIN filters : FilterIsInvalid(filters[i])}

FirstInvalid(filters) ==
    CHOOSE i \in InvalidIndexes(filters) : \A j \in InvalidIndexes(filters) : i <= j

SharedLogic(logic) == IF ToLower(logic) = s_or THEN s_or ELSE s_and

C19_WitnessError ==
    /\ pc = "ParseMultipleFilterParams"
    /\ args.filters = <<Filter("", s_gt, GoInt(30)), Filter("age", s_foo, GoInt(30))>>
    /\ ret.json.empty
    /\ ret.err = Err("filter field cannot be empty", "")

\* the group whose serialisation was read back
SerialisedGroup ==
    IF "g" \in DOMAIN args THEN args.g
    ELSE IF "filters" \in DOMAIN args
    THEN FilterGroup(SharedLogic(args.logic), args.filters, <<>>)
    ELSE FilterGroup(IF args.logic = s_or THEN s_or ELSE s_and,
                     <<Filter(args.field, args.op, args.value)>>, <<>>)

\* C20: ParseFilters applied to the JSON serialisation of a group g whose
\* logic is normalised returns, without error, a group equal to g: same
\* logic, same leaves (field, operator, value) in the same order, same
\* sub-groups.
C20_RoundTrip ==
    (pc = "ParseFilters" /\ SerialisedGroup.Logic \in {s_and, s_or})
    => /\ err = NoErr
       /\ group = SerialisedGroup

\* C21: ExecuteWithCount runs the count query first and the main query
\* second, each at most once: if the count fails it returns (nil, 0, an error
\* tagged as a count-query failure) and the main query is never executed; if
\* the count succeeds and the main query fails it returns (nil, 0, an error
\* tagged as a main-query failure); only when both succeed it returns
\* (rows, count, nil).
C21_CountThenMain ==
    pc = "ExecuteWithCount"
    => LET count == Statement("Count", args.countQuery)
           main  == Statement("Scan", args.query)
       IN  IF args.onCount.err # NoErr
           THEN /\ db = <<count>>
                /\ ret = [results |-> NilResults, count |-> 0,
                          err |-> Wrap("failed to execute count query",
                                       args.onCount.err)]
           ELSE /\ db = <<count, main>>
                /\ IF args.onScan.err # NoErr
                   THEN ret = [results |-> NilResults, count |-> 0,
                               err |-> Wrap("failed to execute main query",
                                            args.onScan.err)]
                   ELSE ret = [results |-> args.onScan.results,
                               count |-> args.onCount.count, err |-> NoErr]

\* the count fails although the main query would have succeeded: only the
\* count statement reached the database
C21_Witness ==
    /\ pc = "ExecuteWithCount"
    /\ args.onCount.err # NoErr
    /\ args.onScan.err = NoErr
    /\ Len(db) = 1
    /\ ret.err.kind = "failed to execute count query"

\* what caller i's call returns when it runs with nothing else going on
AloneQuery(q, call) ==
    IF call = "Apply"
    THEN LET r == Apply(q, QRef(<<NewSelectQuery>>, 1))
         IN  [query |-> Deref(r.q), mainIsBase |-> r.q.ptr = 1, countIsBase |-> FALSE]
    ELSE LET r == ApplyWithCount(q, QRef(<<NewSelectQuery>>, 1))
         IN  [query |-> r.heap[1], mainIsBase |-> r.mainQuery = 1,
              countIsBase |-> r.countQuery = 1]

AloneMetadata(q, totalCount) ==
    {GetPaginationMetadata(q.Pagination, totalCount, ConcBaseURI, o1, o2) :
        o1 \in KeyOrders({k_page, k_pageSize}), o2 \in KeyOrders({k_page, k_pageSize})}

\* C22: two instances used concurrently, each on its own base query, with
\* the stages of their Apply / ApplyWithCount / GetPaginationMetadata calls
\* interleaved in any order, produce the queries and metadata each produces
\* when run alone; a caller that has not reached a stage yet finds its query
\* untouched by the other caller.
C22_CallersDoNotInterfere ==
    pc = "running"
    => \A i \in CallerIds :
          /\ callers[i].at \in {"filter", "meta"} => heap[i] = NewSelectQuery
          /\ (callers[i].at = "done" /\ callers[i].call # "GetPaginationMetadata")
               => /\ heap[i] = AloneQuery(instances[i], callers[i].call).query
                  /\ callers[i].mainQuery = i
                  /\ callers[i].call = "ApplyWithCount" => callers[i].countQuery = i
          /\ (callers[i].at = "done" /\ callers[i].call = "GetPaginationMetadata")
               => /\ callers[i].meta \in AloneMetadata(instances[i], callers[i].totalCount)
                  /\ heap[i] = NewSelectQuery

\* the two instances differ, and caller 2 ran its whole Apply while caller 1
\* was in the middle of ApplyWithCount
C22_Witness ==
    /\ pc = "running"
    /\ callers[1].at = "count"
    /\ callers[1].call = "ApplyWithCount"
    /\ callers[2].at = "done"
    /\ callers[2].call = "Apply"
    /\ HasFilters(instances[1])
    /\ ~HasFilters(instances[2])
    /\ instances[2].Sort # instances[1].Sort
    /\ heap[2] # NewSelectQuery

\* C23: for an operator string that is not a registered mnemonic, GetOperator
\* resolves to equality and ApplyFilter adds, without failing, one equality
\* predicate on the leaf's field and value; IsValidOperator is false for the
\* same string and validateFilter returns an invalid-operator error naming it.
C23_PermissiveCompileStrictValidate ==
    (pc = "validateFilter" /\ ToLower(leaf.Operator) \notin DOMAIN operatorMap)
    => /\ opKind = "="
       /\ Len(heap[out].where) = Len(before.where) + 1
       /\ LastWhere(heap[out]).Kind = "="
       /\ LastWhere(heap[out]).Field = leaf.Field
       /\ LastWhere(heap[out]).Args = <<leaf.Value>>
       /\ opValid = FALSE
       /\ err = Err("invalid operator", leaf.Operator)

\* "foo" compiles to age = 21 and is refused by validateFilter
C23_Witness ==
    /\ pc = "validateFilter"
    /\ leaf = Filter("age", s_foo, Num(21))
    /\ LastWhere(heap[out]) = Pred("=", FALSE, "age", <<Num(21)>>)
    /\ err = Err("invalid operator", s_foo)

\* the errors of a tree in the order C24 gives: the group's logic, its leaves
\* in order, then its sub-groups, each in the same way
RECURSIVE Flatten(_)
Flatten(ss) == IF ss = <<>> THEN <<>> ELSE Head(ss) \o Flatten(Tail(ss))

LeafViolation(f) ==
    IF f.Field = "" THEN <<Err("filter field cannot be empty", "")>>
    ELSE IF ToLower(f.Operator) \notin DOMAIN operatorMap
    THEN <<Err("invalid operator", f.Operator)>>
    ELSE <<>>

RECURSIVE Violations(_)
Violations(g) ==
    (IF ToLower(g.Logic) \in {s_and, s_or} THEN <<>>
     ELSE <<Err("filter group logic must be 'and' or 'or'", "")>>)
    \o Flatten([i \in DOMAIN g.Filters |-> LeafViolation(g.Filters[i])])
    \o Flatten([i \in DOMAIN g.Groups |-> Violations(g.Groups[i])])

\* C24: validateFilterGroup(group) returns nil iff every group of the tree,
\* at any depth, has logic and/or ignoring case and every leaf at any depth
\* has a non-empty field and an operator IsValidOperator accepts; otherwise
\* it returns the error of the first violation in the order: the group's
\* logic, its leaves in order, then its sub-groups recursively.
C24_ValidateFilterGroup ==
    pc = "validateFilterGroup"
    => /\ err = NoErr <=> Violations(group) = <<>>
       /\ Violations(group) # <<>> => err = Head(Violations(group))

\* a sound root and second level, and a bad operator three groups deep
C24_Witness ==
    /\ pc = "validateFilterGroup"
    /\ Depth(group) = 2
    /\ IsCanonicalLogic(group.Logic)
    /\ Len(group.Groups) = 1
    /\ IsCanonicalLogic(group.Groups[1].Logic)
    /\ err = Err("invalid operator", s_foo)

\* a value that is a date-literal string
DateLiteral(v) == v.t = "str" /\ isDateString(v.s)

\* what an operator name stands for: its documented kind, equality when it
\* is not a documented name
KindOf(op) ==
    IF ToLower(op) \in DOMAIN DocumentedKind THEN DocumentedKind[ToLower(op)] ELSE "="

\* the leaves C25 gives the date-cast form to
DateCastExpected(f) ==
    \/ KindOf(f.Operator) \in ComparisonOps /\ DateLiteral(f.Value)
    \/ /\ KindOf(f.Operator) = "BETWEEN"
       /\ f.Value.t = "arr"
       /\ Len(f.Value.a) = 2
       /\ DateLiteral(f.Value.a[1])
       /\ DateLiteral(f.Value.a[2])

\* C25: ApplyFilter emits the date-cast form of a predicate exactly when
\* every compared value is a date-literal string: for a comparison operator
\* with a date-literal string value, and for between with a two-element
\* sequence of date-literal strings; in every other case it emits the
\* literal form.
C25_DateCastExactlyForDates ==
    pc = "ApplyFilter" => (LastWhere(heap[out]).Cast <=> DateCastExpected(leaf))

\* the pattern C26 gives for a like value
LikePattern(v) ==
    IF v.t = "str"
    THEN IF \E i \in DOMAIN v.s : v.s[i] = "%" THEN v.s
         ELSE <<"%">> \o v.s \o <<"%">>
    ELSE <<"%">> \o FmtV(v) \o <<"%">>

\* C26: for the like operator ApplyFilter emits a LIKE predicate whose
\* pattern is the value wrapped in % on both ends when the value is a string
\* without a %, the value unchanged when it is a string that holds a %, and
\* the string form of the value wrapped in % when it is not a string.
C26_LikeShaping ==
    (pc = "ApplyFilter" /\ ToLower(leaf.Operator) = s_like)
    => /\ Len(heap[out].where) = Len(before.where) + 1
       /\ LastWhere(heap[out]) = Pred("LIKE", FALSE, leaf.Field, <<Str(LikePattern(leaf.Value))>>)

\* "U%" is passed through as it is
C26_Witness ==
    /\ pc = "ApplyFilter"
    /\ leaf = Filter("first_name", s_like, Str(s_Upct))
    /\ LastWhere(heap[out]).Args = <<Str(s_Upct)>>

\* the number 21 becomes the pattern %21%
C26_WitnessNumber ==
    /\ pc = "ApplyFilter"
    /\ leaf = Filter("age", s_like, Num(21))
    /\ LastWhere(heap[out]).Args = <<Str(<<"%","2","1","%">>)>>

\* the fields of the predicates a query holds
PredicateFields(q) ==
    {q.where[i].Query.Field : i \in {j \in DOMAIN q.where : q.where[j].Query # NoQuery}}

OrderFields(q) == {q.order[i].field : i \in DOMAIN q.order}

ElementsOf(list) == {list[i] : i \in DOMAIN list}

\* C27: for an orchestrator created with a non-empty AllowedFilterFields,
\* after any sequence of WithFilters, WithSort and WithPagination calls,
\* every predicate Apply emits is on a field of AllowedFilterFields, and
\* every ORDER BY term is on a field of AllowedSortFields when that list is
\* not empty.
C27_AppliedFieldsAreAllowed ==
    (pc = "Apply" /\ ql.AllowedFilterFields # <<>>)
    => /\ PredicateFields(heap[mainQuery]) \subseteq ElementsOf(ql.AllowedFilterFields)
       /\ ql.AllowedSortFields # <<>>
            => OrderFields(heap[mainQuery]) \subseteq ElementsOf(ql.AllowedSortFields)

\* the predicates of a base query after the orchestrator's filter group has
\* been applied to it once
FilteredOnce(q, base) ==
    IF HasFilters(q)
    THEN Deref(ApplyFilterGroup(QRef(<<base>>, 1), q.Filters)).where
    ELSE base.where

\* C28: ApplyWithCount applies the filter group exactly once to the main
\* query and exactly once to the count query, and the two returned queries
\* are independent of each other: the sort, limit and offset added to the
\* main query are not visible on the count query, and the filter added for
\* the count query does not appear a second time on the main query.
C28_FilterOnceOnEachQuery ==
    pc = "ApplyWithCount"
    => /\ mainQuery # countQuery
       /\ heap[mainQuery].where = FilteredOnce(ql, before)
       /\ heap[countQuery].where = FilteredOnce(ql, before)
       /\ heap[countQuery].order = before.order
       /\ heap[countQuery].limit = before.limit
       /\ heap[countQuery].offset = before.offset

\* the link's page parameter names one of the pages 1 .. last
TargetsPage(link, last) ==
    /\ LinkValues(link, k_page) # <<>>
    /\ \A i \in DOMAIN LinkValues(link, k_page) :
          \E n \in 1 .. last : LinkValues(link, k_page)[i] = IntToStr(n)

\* C29: every prev or next link that GetPaginationMetadata produces targets
\* an existing page: its page parameter p satisfies 1 <= p <= Total, for
\* every Page (also one larger than Total), every PageSize > 0 and every
\* totalCount >= 0.
C29_LinksTargetExistingPages ==
    (pc = "GetPaginationMetadata" /\ PagingEnabled /\ args.totalCount >= 0)
    => /\ ~ret.Prev.nil => TargetsPage(ret.Prev, ret.Total)
       /\ ~ret.Next.nil => TargetsPage(ret.Next, ret.Total)

(***************************************************************************)
(* A client that walks the pages by following the Next links.              *)
(***************************************************************************)
WalkSizes == {1, 2, 3}

WalkCounts == 1 .. 7

WalkPages == 0 .. 20

WalkBaseURIs ==
    {<<"/","u">>,
     <<"/","u","?","a","=","1">>,
     <<"/","u","?","p","a","g","e","=","7","&","p","a","g","e","S","i","z","e","=","9">>}

\* the number a link's parameter k reads as
NumberNamed(link, k) ==
    CHOOSE n \in WalkPages : IntToStr(n) = LinkValues(link, k)[1]

\* one call of GetPaginationMetadata, in any order of its map loops
Visit(p, totalCount, baseURI) ==
    LET keys == LinkParams(queryParamsOf(baseURI), 0, 0).keys
    IN  \E prevOrder \in KeyOrders(keys), nextOrder \in KeyOrders(keys) :
           /\ args' = [p |-> p, totalCount |-> totalCount, baseURI |-> baseURI]
           /\ ret' = GetPaginationMetadata(p, totalCount, baseURI,
                                           prevOrder, nextOrder)

StartWalk ==
    /\ pc = "start"
    /\ pc' = "GetPaginationMetadata"
    /\ \E size \in WalkSizes, totalCount \in WalkCounts, baseURI \in WalkBaseURIs :
          Visit(Pagination(1, size), totalCount, baseURI)
    /\ visited' = <<1>>
    /\ UNCHANGED <<heap, filterVars, opVars, orchVars, db, instances, callers>>

\* the client asks for the page and page size the Next link names
FollowNext ==
    /\ pc = "GetPaginationMetadata"
    /\ visited # <<>>
    /\ ~ret.Next.nil
    /\ \E page \in {NumberNamed(ret.Next, k_page)} :
          /\ Visit(Pagination(page, NumberNamed(ret.Next, k_pageSize)),
                   args.totalCount, args.baseURI)
          /\ visited' = Append(visited, page)
    /\ UNCHANGED <<pc, heap, filterVars, opVars, orchVars, db, instances, callers>>

NextWalk == StartWalk \/ FollowNext

\* FollowNext can be taken: there is a Next link to follow
WalkCanGoOn ==
    /\ pc = "GetPaginationMetadata"
    /\ visited # <<>>
    /\ ~ret.Next.nil

\* the client goes on for as long as there is a Next link to follow: weak
\* fairness of FollowNext, WF_vars(FollowNext), with ENABLED <<FollowNext>>_vars
\* written out as WalkCanGoOn
FairWalk == []<>(~WalkCanGoOn) \/ []<><<FollowNext>>_vars

SpecWalk == Init /\ [][NextWalk]_vars /\ FairWalk

WalkTotal == Ceil(args.totalCount, args.p.PageSize)

UpTo(n) == [i \in 1 .. n |-> i]

\* so far the walk has seen the pages 1, 2, ... in order, it is on the last
\* of them, every page but page Total has a Next link to the page after it
\* and every page but page 1 a Prev link to the page before it
WalkInOrder ==
    visited # <<>>
    => /\ visited = UpTo(Len(visited))
       /\ args.p.Page = Len(visited)
       /\ Len(visited) <= WalkTotal
       /\ ret.Next.nil <=> Len(visited) = WalkTotal
       /\ ~ret.Next.nil
            => LinkValues(ret.Next, k_page) = <<IntToStr(Len(visited) + 1)>>
       /\ Len(visited) > 1
            => /\ ~ret.Prev.nil
               /\ LinkValues(ret.Prev, k_page) = <<IntToStr(Len(visited) - 1)>>

\* the walk has stopped on page Total, Total-1 steps after page 1
WalkDone ==
    /\ visited # <<>>
    /\ visited = UpTo(WalkTotal)
    /\ ret.Next.nil

\* C30: for every PageSize > 0 and totalCount > 0, starting at page 1 and
\* repeatedly calling GetPaginationMetadata on the page named by the Next
\* link visits the pages 1, 2, ..., Total in that order and then stops (page
\* Total has no Next link) after exactly Total-1 steps, and on every page
\* k > 1 of the walk the Prev link names page k-1.
C30_LinkWalk ==
    /\ []WalkInOrder
    /\ (visited # <<>>) ~> WalkDone
    /\ [](WalkDone => []WalkDone)

\* seven items in pages of two: the walk has gone 1, 2, 3, 4 and stopped there
C30_Witness ==
    /\ visited = <<1, 2, 3, 4>>
    /\ args.totalCount = 7
    /\ args.p = Pagination(4, 2)
    /\ ret.Next.nil
    /\ LinkValues(ret.Prev, k_page) = <<IntToStr(3)>>

====
